---- MODULE Spec2Model ----
(***************************************************************************)
(* Claim-verification pipeline of rag-news-claim-verification:             *)
(* claim router, retrieval (flat and agentic), verdict generation,         *)
(* self-critique and correction.                                           *)
(*                                                                         *)
(* Conventions                                                             *)
(*  - a JavaScript string that the code inspects character by character    *)
(*    (toLowerCase, includes, substring, +) is a sequence of one-character *)
(*    strings; enum-like strings that are only compared are TLA+ strings;  *)
(*  - a JavaScript number in [0,1] is an integer number of hundredths;     *)
(*  - undefined is "undefined" for enum-like fields, NoScore for numeric   *)
(*    fields and UndefStr for character strings.                           *)
(***************************************************************************)
EXTENDS Integers, Sequences, FiniteSets, TLC

(***************************************************************************)
(* Bounds of the model                                                     *)
(***************************************************************************)
MaxEntities == 4
MaxIssues == 2
MaxCalls == 3

(***************************************************************************)
(* Strings                                                                 *)
(***************************************************************************)
UpperChars == <<"A","B","C","D","E","F","G","H","I","J","K","L","M",
                "N","O","P","Q","R","S","T","U","V","W","X","Y","Z">>
LowerChars == <<"a","b","c","d","e","f","g","h","i","j","k","l","m",
                "n","o","p","q","r","s","t","u","v","w","x","y","z">>

UndefStr == <<"undefined">>
NoScore == -1

Min(a, b) == IF a <= b THEN a ELSE b
Max(a, b) == IF a >= b THEN a ELSE b

\* String.prototype.toLowerCase on one character
toLowerChar(c) ==
    IF \E i \in 1..26 : UpperChars[i] = c
    THEN LowerChars[CHOOSE i \in 1..26 : UpperChars[i] = c]
    ELSE c

\* String.prototype.toLowerCase
toLowerCase(s) == [i \in 1..Len(s) |-> toLowerChar(s[i])]

\* String.prototype.includes
includes(s, sub) ==
    \E i \in 0..(Len(s) - Len(sub)) : SubSeq(s, i + 1, i + Len(sub)) = sub

\* String.prototype.substring(0, n)
substring0(s, n) == SubSeq(s, 1, Min(n, Len(s)))

\* a string of n copies of the character c
Rep(c, n) == [i \in 1..n |-> c]

(***************************************************************************)
(* claim-router.js                                                         *)
(***************************************************************************)
SIMPLE == "simple"
HYBRID == "hybrid"
AGENTIC == "agentic"

VerificationStrategy == {SIMPLE, HYBRID, AGENTIC}

\* the keyword list of routeClaim, claim-router.js:50
AgenticKeywords ==
    { <<"c","o","n","t","r","o","v","e","r","s","i","a","l">>,
      <<"d","i","s","p","u","t","e","d">>,
      <<"a","l","l","e","g","e","d">>,
      <<"r","e","p","o","r","t","e","d","l","y">>,
      <<"c","l","a","i","m","s">> }

SimpleTypes == {"fact", "historical", "biographical", "scientific"}

\* a field of an object, dflt where the object has no such field
Field(a, f, dflt) == IF f \in DOMAIN a THEN a[f] ELSE dflt

needsAgenticVerification(a) ==
    \/ a.complexity = "complex"
    \/ Len(a.entities) > 3
    \/ (a.temporality = "current" /\ a.isRecent)
    \/ a.type = "statistical"
    \/ a.type = "numerical"
    \/ \E i \in 1..Len(a.keywords) : toLowerCase(a.keywords[i]) \in AgenticKeywords

canUseSimpleVerification(a) ==
    /\ a.temporality \in {"timeless", "historical"}
    /\ a.complexity = "simple"
    /\ Len(a.entities) <= 1
    /\ a.type \in SimpleTypes

\* the destructuring of claimAnalysis: entities and keywords default to [];
\* a missing type, temporality or complexity is undefined, a missing isRecent
\* is falsy
destructure(a) ==
    [type |-> Field(a, "type", "undefined"),
     temporality |-> Field(a, "temporality", "undefined"),
     complexity |-> Field(a, "complexity", "undefined"),
     entities |-> Field(a, "entities", <<>>),
     keywords |-> Field(a, "keywords", <<>>),
     isRecent |-> Field(a, "isRecent", FALSE)]

routeClaim_simpleFirst(a) ==
    IF canUseSimpleVerification(destructure(a)) THEN SIMPLE
    ELSE IF needsAgenticVerification(destructure(a)) THEN AGENTIC
    ELSE HYBRID

\* entities.length and keywords.some without the defaults of the destructuring
routeClaim_noDefaults(a) ==
    IF "entities" \notin DOMAIN a \/ "keywords" \notin DOMAIN a THEN "TypeError"
    ELSE IF needsAgenticVerification(destructure(a)) THEN AGENTIC
    ELSE IF canUseSimpleVerification(destructure(a)) THEN SIMPLE
    ELSE HYBRID

routeClaim(a) ==
    IF needsAgenticVerification(destructure(a)) THEN AGENTIC
    ELSE IF canUseSimpleVerification(destructure(a)) THEN SIMPLE
    ELSE HYBRID

\* the table of getStrategyConfig; maxIterations is 0 where the table has none
configs ==
    [s \in VerificationStrategy |->
        CASE s = SIMPLE ->
               [name |-> "Simple", useVectorSearch |-> TRUE, useWebSearch |-> FALSE,
                useAgent |-> FALSE, maxSources |-> 3, maxIterations |-> 0,
                timeoutMs |-> 5000]
          [] s = HYBRID ->
               [name |-> "Hybrid", useVectorSearch |-> TRUE, useWebSearch |-> TRUE,
                useAgent |-> FALSE, maxSources |-> 8, maxIterations |-> 0,
                timeoutMs |-> 10000]
          [] s = AGENTIC ->
               [name |-> "Agentic", useVectorSearch |-> TRUE, useWebSearch |-> TRUE,
                useAgent |-> TRUE, maxSources |-> 10, maxIterations |-> 5,
                timeoutMs |-> 30000]]

getStrategyConfig(strategy, a) ==
    LET config == IF strategy \in DOMAIN configs THEN configs[strategy]
                  ELSE configs[HYBRID]
    IN  [name |-> config.name,
         useVectorSearch |-> config.useVectorSearch,
         useWebSearch |-> config.useWebSearch,
         useAgent |-> config.useAgent,
         maxSources |-> config.maxSources,
         maxIterations |-> config.maxIterations,
         timeoutMs |-> config.timeoutMs,
         prioritizeWebSearch |-> (Field(a, "temporality", "undefined") = "current"),
         prioritizeKnowledgeBase |->
             (Field(a, "temporality", "undefined") \in {"historical", "timeless"})]

(***************************************************************************)
(* critique-agent.js                                                       *)
(***************************************************************************)
IssueTypes == {"citation_missing", "citation_invalid", "reasoning_incoherent",
               "confidence_miscalibrated", "verdict_unsupported",
               "hallucination", "other"}
Severities == {"critical", "major", "minor"}

TooHigh == <<"t","o","o"," ","h","i","g","h">>
TooLow == <<"t","o","o"," ","l","o","w">>

\* the text appended to reasoning, critique-agent.js:212
AdjustedNote ==
    <<" ","[","N","o","t","e",":"," ","V","e","r","d","i","c","t"," ","a","d","j","u","s","t","e","d"," ","d","u","e"," ","t","o"," ","i","n","s","u","f","f","i","c","i","e","n","t"," ","e","v","i","d","e","n","c","e"," ","s","u","p","p","o","r","t","]">>

\* the CritiqueResult returned when the critique completion throws
\* (suggestions and overallAssessment are fixed texts no later step reads)
FailOpenCritique_invalid == [isValid |-> FALSE, confidence |-> 50, issues |-> <<>>]

FailOpenCritique == [isValid |-> TRUE, confidence |-> 50, issues |-> <<>>]

shouldRegenerateVerification(critique) ==
    /\ ~critique.isValid
    /\ \E i \in 1..Len(critique.issues) : critique.issues[i].severity = "critical"

filterCitations_reindex(cs, description) ==
    LET keep(c) == ~includes(description, c.title)
        kept == SelectSeq(cs, keep)
    IN  [i \in 1..Len(kept) |-> [kept[i] EXCEPT !.index = i]]

\* Array.prototype.filter(c => !description.includes(c.title))
RECURSIVE filterCitations(_, _)
filterCitations(cs, description) ==
    IF cs = <<>> THEN <<>>
    ELSE LET rest == filterCitations(Tail(cs), description)
         IN  IF includes(description, Head(cs).title) THEN rest
             ELSE <<Head(cs)>> \o rest

applyIssue_anySeverity(improved, verdict, issue) ==
    LET c1 == IF issue.type = "confidence_miscalibrated"
              THEN IF includes(issue.description, TooHigh)
                   THEN [improved EXCEPT !.confidence = Max(30, verdict.confidence - 20)]
                   ELSE IF includes(issue.description, TooLow)
                   THEN [improved EXCEPT !.confidence = Min(90, verdict.confidence + 20)]
                   ELSE improved
              ELSE improved
        c2 == IF issue.type = "verdict_unsupported"
              THEN [c1 EXCEPT !.verdict = "NOT_ENOUGH_EVIDENCE",
                              !.reasoning = c1.reasoning \o AdjustedNote]
              ELSE c1
    IN  IF issue.type = "hallucination"
        THEN [c2 EXCEPT !.citations =
                            SelectSeq(verdict.citations,
                                      LAMBDA c : ~includes(issue.description, c.title))]
        ELSE c2

\* one iteration of critique.issues.forEach: verdict is the original verdict,
\* improved the copy under construction
applyIssue(improved, verdict, issue) ==
    LET c1 == IF issue.type = "confidence_miscalibrated" /\ issue.severity = "critical"
              THEN IF includes(issue.description, TooHigh)
                   THEN [improved EXCEPT !.confidence = Max(30, verdict.confidence - 20)]
                   ELSE IF includes(issue.description, TooLow)
                   THEN [improved EXCEPT !.confidence = Min(90, verdict.confidence + 20)]
                   ELSE improved
              ELSE improved
        c2 == IF issue.type = "verdict_unsupported" /\ issue.severity = "critical"
              THEN [c1 EXCEPT !.verdict = "NOT_ENOUGH_EVIDENCE",
                              !.reasoning = c1.reasoning \o AdjustedNote]
              ELSE c1
        c3 == IF issue.type = "hallucination" /\ issue.severity = "critical"
              THEN [c2 EXCEPT !.citations =
                                  filterCitations(verdict.citations, issue.description)]
              ELSE c2
    IN  c3

RECURSIVE applyIssues(_, _, _)
applyIssues(improved, verdict, issues) ==
    IF issues = <<>> THEN improved
    ELSE applyIssues(applyIssue(improved, verdict, Head(issues)), verdict, Tail(issues))

applyCritiqueSuggestions_firstIssueOnly(verdict, critique) ==
    IF critique.isValid \/ critique.issues = <<>> THEN verdict
    ELSE applyIssue(verdict, verdict, Head(critique.issues))

applyCritiqueSuggestions(verdict, critique) ==
    IF critique.isValid THEN verdict
    ELSE applyIssues(verdict, verdict, critique.issues)

(***************************************************************************)
(* Evidence sources: what the external services can answer                 *)
(***************************************************************************)
Falsy(s) == s = UndefStr \/ s = <<>>

\* a || b on strings
OrElse(a, b) == IF Falsy(a) THEN b ELSE a

\* matches returned by Pinecone, as similaritySearch turns them into Documents
\* (prompts.js:336-343): metadata fields, metadata.score and pageContent
Doc(claim, source, explanation, pageContent, credibility, score, verdict) ==
    [claim |-> claim, source |-> source, explanation |-> explanation,
     pageContent |-> pageContent, credibility |-> credibility, score |-> score,
     verdict |-> verdict]

D1 == Doc(<<"A">>, <<"k","b","/","a">>, <<"x","a">>, <<"t","a">>, "high", 90, "TRUE")
D2 == Doc(UndefStr, UndefStr, UndefStr, <<"t","b">>, "undefined", 70, "undefined")
D3 == Doc(<<"B">>, <<"k","b","/","a">>, <<"x","a">>, <<"t","c">>, "medium", 60, "FALSE")
D4 == Doc(<<"E">>, <<"k","b","/","e">>, <<"x","e">>, <<"t","e">>, "medium", 85, "FALSE")
D5 == Doc(<<"F">>, <<"k","b","/","f">>, <<"x","f">>, <<"t","f">>, "low", 0, "TRUE")
DL1 == Doc(<<"C">>, <<"k","b","/","l">>, Rep("z", 100) \o <<"p">>, <<>>, "high", 50, "TRUE")
DL2 == Doc(<<"D">>, <<"k","b","/","l">>, Rep("z", 100) \o <<"q">>, <<>>, "low", 40, "TRUE")

\* answers of similaritySearch(claim, 5, ...): at most topK = 5 documents
KBLists == { <<>>, <<D1, D3>>, <<D2, DL1, DL2>>, <<D1, D2, D4, D5, DL1>> }

\* Wikipedia results as searchWikipedia builds them (at most limit=3)
Wiki(title, url, snippet) ==
    [title |-> title, url |-> url, snippet |-> snippet, credibility |-> "high",
     source |-> "Wikipedia", score |-> NoScore, verdict |-> "undefined"]

W1 == Wiki(<<"A">>, <<"w","i","k","i","p","e","d","i","a","/","A">>, <<"s","a">>)
W2 == Wiki(<<"B">>, <<"w","i","k","i","p","e","d","i","a","/","B">>, <<"s","b">>)
W3 == Wiki(<<"A","B">>, <<"w","i","k","i","p","e","d","i","a","/","A","B">>, <<"s","a","b">>)

WikiLists == { <<>>, <<W1>>, <<W1, W2, W3>> }

\* raw Tavily results (response.results): title, url, content, score
Raw(title, url, content, score) ==
    [title |-> title, url |-> url, content |-> content, score |-> score]

R1 == Raw(<<"N","1">>, <<"b","b","c",".","c","o","m","/","n","e","w","s","/","1">>, <<"n","1">>, 80)
R2 == Raw(<<"N","2">>, <<"c","n","n",".","c","o","m","/","2">>, <<"n","2">>, NoScore)
R3 == Raw(<<"N","3">>, <<"n","p","r",".","o","r","g","/","3">>, <<>>, 60)
R4 == Raw(<<"N","4">>, <<"w","s","j",".","c","o","m","/","4">>, <<"n","4">>, 75)
R6 == Raw(<<"N","6">>, <<"x",".","g","o","v","/","6">>, <<"n","6">>, 10)
R5 == Raw(<<"N","1">>, <<"b","b","c",".","c","o","m","/","n","e","w","s","/","1">>, <<"n","1">>, 30)

\* answers of client.search with maxResults = 5
TavilyLists == { <<>>, <<R1, R5>>, <<R1, R2, R3, R4, R6>> }

\* tavily-search.js calculateCredibility
calculateCredibility(result) ==
    LET url == toLowerCase(result.url)
        score == IF result.score = NoScore THEN 0 ELSE result.score
    IN  IF \/ includes(url, <<"w","i","k","i","p","e","d","i","a",".","o","r","g">>)
           \/ includes(url, <<".","g","o","v">>)
           \/ includes(url, <<".","e","d","u">>)
           \/ includes(url, <<"r","e","u","t","e","r","s",".","c","o","m">>)
           \/ includes(url, <<"a","p","n","e","w","s",".","c","o","m">>)
           \/ includes(url, <<"b","b","c",".","c","o","m">>)
        THEN "high"
        ELSE IF score > 70 THEN "high"
        ELSE IF score > 50 THEN "medium"
        ELSE "low"

\* tavily-search.js searchTavily: the mapping of response.results
searchTavily(raw) ==
    [i \in 1..Len(raw) |->
        [title |-> raw[i].title, url |-> raw[i].url, snippet |-> raw[i].content,
         credibility |-> calculateCredibility(raw[i]), source |-> "Tavily",
         score |-> IF raw[i].score = NoScore THEN 0 ELSE raw[i].score,
         verdict |-> "undefined"]]

\* websearch.js searchWeb: tavily and wiki are the answers the two services
\* would give to this call
searchWeb(temporality, tavilyAvailable, tavily, wiki) ==
    LET t == IF temporality = "undefined" THEN "recent" ELSE temporality
    IN  IF t \in {"timeless", "historical"} THEN wiki
        ELSE IF t \in {"current", "recent"} /\ tavilyAvailable
                /\ Len(searchTavily(tavily)) > 0
        THEN searchTavily(tavily)
        ELSE wiki

(***************************************************************************)
(* verification-pipeline.js: retrieveEvidence and deduplicateEvidence      *)
(***************************************************************************)
PrefixLen == 100

\* the dedup key, verification-pipeline.js:324
dedupKey(item) == item.url \o <<":", ":">> \o substring0(item.snippet, PrefixLen)

\* the first loop of deduplicateEvidence: keep the first record of every key
RECURSIVE uniqueByKey(_, _)
uniqueByKey(evidence, seen) ==
    IF evidence = <<>> THEN <<>>
    ELSE LET item == Head(evidence)
             key == dedupKey(item)
         IN  IF key \in seen THEN uniqueByKey(Tail(evidence), seen)
             ELSE <<item>> \o uniqueByKey(Tail(evidence), seen \cup {key})

\* a.score || (a.credibility === 'high' ? 0.8 : 0.5)
sortScore(a) ==
    IF a.score = NoScore \/ a.score = 0
    THEN (IF a.credibility = "high" THEN 80 ELSE 50)
    ELSE a.score

\* the comparator of unique.sort
compareEvidence(a, b) ==
    IF a.source = "vector" /\ b.source # "vector" THEN -1
    ELSE IF a.source # "vector" /\ b.source = "vector" THEN 1
    ELSE sortScore(b) - sortScore(a)

\* Array.prototype.sort is stable: x goes behind every record that does not
\* compare greater than it
RECURSIVE insertSorted_beforeEqual(_, _)
insertSorted_beforeEqual(sorted, x) ==
    IF sorted = <<>> THEN <<x>>
    ELSE IF compareEvidence(Head(sorted), x) < 0
         THEN <<Head(sorted)>> \o insertSorted_beforeEqual(Tail(sorted), x)
         ELSE <<x>> \o sorted

RECURSIVE insertSorted(_, _)
insertSorted(sorted, x) ==
    IF sorted = <<>> THEN <<x>>
    ELSE IF compareEvidence(Head(sorted), x) <= 0
         THEN <<Head(sorted)>> \o insertSorted(Tail(sorted), x)
         ELSE <<x>> \o sorted

RECURSIVE sortEvidence(_, _)
sortEvidence(sorted, rest) ==
    IF rest = <<>> THEN sorted
    ELSE sortEvidence(insertSorted(sorted, Head(rest)), Tail(rest))

deduplicateEvidence(evidence) == sortEvidence(<<>>, uniqueByKey(evidence, {}))

\* Array.prototype.slice(0, n)
slice0_keepAll(xs, n) == xs

slice0(xs, n) == SubSeq(xs, 1, Min(n, Len(xs)))

KnowledgeBaseTitle == <<"K","n","o","w","l","e","d","g","e"," ","B","a","s","e",":"," ">>
FactTitle == <<"F","a","c","t">>
InternalUrl == <<"i","n","t","e","r","n","a","l",":","/","/","k","n","o","w","l","e","d","g","e","-","b","a","s","e">>

\* the record retrieveEvidence pushes for a knowledge-base document
vectorRecord(doc) ==
    [title |-> KnowledgeBaseTitle \o OrElse(doc.claim, FactTitle),
     url |-> OrElse(doc.source, InternalUrl),
     snippet |-> OrElse(doc.explanation, doc.pageContent),
     credibility |-> IF doc.credibility = "undefined" THEN "high" ELSE doc.credibility,
     source |-> "vector",
     score |-> doc.score,
     verdict |-> doc.verdict]

\* the record retrieveEvidence pushes for a web result
webRecord(result) ==
    [result EXCEPT !.source = IF result.source = "undefined" THEN "web" ELSE result.source]

\* one try block around both queries: a query that throws ends the retrieval
retrieveEvidence_sharedTry(opts, pineconeAvailable, kb, web) ==
    LET asksKb == opts.useVectorSearch /\ pineconeAvailable
        fromKb == IF asksKb
                  THEN [i \in 1..Len(kb.items) |-> vectorRecord(kb.items[i])]
                  ELSE <<>>
        fromWeb == IF opts.useWebSearch
                   THEN [i \in 1..Len(web.items) |-> webRecord(web.items[i])]
                   ELSE <<>>
        evidence == IF (asksKb /\ kb.throws) \/ (opts.useWebSearch /\ web.throws)
                    THEN <<>>
                    ELSE fromKb \o fromWeb
    IN  IF Len(evidence) = 0 THEN <<>>
        ELSE slice0(deduplicateEvidence(evidence), opts.maxSources)

\* retrieveEvidence: kb and web are the outcomes of the two awaited calls,
\* [throws |-> BOOLEAN, items |-> the list returned]
retrieveEvidence(opts, pineconeAvailable, kb, web) ==
    LET fromKb == IF opts.useVectorSearch /\ pineconeAvailable /\ ~kb.throws
                  THEN [i \in 1..Len(kb.items) |-> vectorRecord(kb.items[i])]
                  ELSE <<>>
        fromWeb == IF opts.useWebSearch /\ ~web.throws
                   THEN [i \in 1..Len(web.items) |-> webRecord(web.items[i])]
                   ELSE <<>>
        evidence == fromKb \o fromWeb
    IN  IF Len(evidence) = 0 THEN <<>>
        ELSE slice0(deduplicateEvidence(evidence), opts.maxSources)

(***************************************************************************)
(* tools.js and verification-agent.js                                      *)
(***************************************************************************)
KB_TOOL == "search_knowledge_base"
CURRENT_TOOL == "search_web_current"
HISTORICAL_TOOL == "search_web_historical"

MaxIterations == 5
EarlyStopCount == 5

buildSearchStrategy_temporalityOnly(a) ==
    IF a.temporality \in {"current", "recent"}
    THEN <<KB_TOOL, CURRENT_TOOL>>
    ELSE IF a.temporality \in {"historical", "timeless"}
    THEN <<KB_TOOL, HISTORICAL_TOOL>>
    ELSE <<KB_TOOL, CURRENT_TOOL, HISTORICAL_TOOL>>

\* buildSearchStrategy(...).toolSequence
buildSearchStrategy(a) ==
    LET base == IF a.temporality \in {"current", "recent"}
                THEN <<KB_TOOL, CURRENT_TOOL>>
                ELSE IF a.temporality \in {"historical", "timeless"}
                THEN <<KB_TOOL, HISTORICAL_TOOL>>
                ELSE <<KB_TOOL, CURRENT_TOOL, HISTORICAL_TOOL>>
        has(seq, t) == \E i \in 1..Len(seq) : seq[i] = t
        withCurrent == IF a.complexity = "complex" /\ ~has(base, CURRENT_TOOL)
                       THEN Append(base, CURRENT_TOOL) ELSE base
        withBoth == IF a.complexity = "complex" /\ ~has(withCurrent, HISTORICAL_TOOL)
                    THEN Append(withCurrent, HISTORICAL_TOOL) ELSE withCurrent
    IN  withBoth

KbTitle == <<"K","B",":"," ">>

\* an observation: what JSON.parse(observation) yields; results carry the
\* fields the agent reads (source_url as url, relevance_score as score)
Observation(success, sourceType, results) ==
    [success |-> success, source_type |-> sourceType, results |-> results]

\* searchKnowledgeBaseTool.func
searchKnowledgeBaseTool(pineconeAvailable, kb) ==
    IF ~pineconeAvailable THEN Observation(FALSE, "undefined", <<>>)
    ELSE IF kb.throws THEN Observation(FALSE, "undefined", <<>>)
    ELSE Observation(TRUE, "knowledge_base",
           [i \in 1..Len(kb.items) |->
              LET doc == kb.items[i]
              IN  [title |-> KbTitle \o OrElse(doc.claim, FactTitle),
                   snippet |-> OrElse(doc.explanation, doc.pageContent),
                   verdict |-> doc.verdict,
                   credibility |-> IF doc.credibility = "undefined" THEN "high"
                                   ELSE doc.credibility,
                   url |-> OrElse(doc.source, InternalUrl),
                   score |-> doc.score]])

\* the result mapping shared by the two web tools: title, snippet, source_url
\* and credibility || dflt are kept, score and verdict are not copied
toolResults(results, dflt) ==
    [i \in 1..Len(results) |->
        [title |-> results[i].title,
         snippet |-> results[i].snippet,
         verdict |-> "undefined",
         credibility |-> IF results[i].credibility = "undefined" THEN dflt
                         ELSE results[i].credibility,
         url |-> results[i].url,
         score |-> NoScore]]

\* searchWebCurrentTool.func: tavily1 answers the tool's own Tavily query,
\* tavily2 and wiki the queries of the searchWeb fallback
searchWebCurrentTool(tavilyAvailable, tavily1, tavily2, wiki) ==
    LET first == IF tavilyAvailable THEN toolResults(searchTavily(tavily1), "medium")
                 ELSE <<>>
        results == IF Len(first) = 0
                   THEN toolResults(searchWeb("recent", tavilyAvailable, tavily2, wiki),
                                    "medium")
                   ELSE first
    IN  Observation(TRUE,
                    IF tavilyAvailable /\ Len(results) > 0 THEN "tavily_news"
                    ELSE "web_current",
                    results)

\* Array.prototype.filter of the historical fallback
RECURSIVE filterHistorical(_)
filterHistorical(rs) ==
    IF rs = <<>> THEN <<>>
    ELSE LET url == toLowerCase(Head(rs).url)
             keep == \/ includes(url, <<"w","i","k","i","p","e","d","i","a">>)
                     \/ includes(url, <<".","e","d","u">>)
                     \/ includes(url, <<"b","r","i","t","a","n","n","i","c","a">>)
                     \/ ~includes(url, <<"n","e","w","s">>)
         IN  IF keep THEN <<Head(rs)>> \o filterHistorical(Tail(rs))
             ELSE filterHistorical(Tail(rs))

\* searchWebHistoricalTool.func
searchWebHistoricalTool(tavilyAvailable, tavily1, tavily2, wiki) ==
    LET first == IF tavilyAvailable THEN toolResults(searchTavily(tavily1), "high")
                 ELSE <<>>
        results == IF Len(first) = 0
                   THEN toolResults(
                          filterHistorical(
                            searchWeb("historical", tavilyAvailable, tavily2, wiki)),
                          "high")
                   ELSE first
    IN  Observation(TRUE,
                    IF tavilyAvailable /\ Len(results) > 0 THEN "tavily_historical"
                    ELSE "web_historical",
                    results)

\* the evidence runVerificationAgent collects from one parsed observation
collectEvidence(obs) ==
    IF obs.success
    THEN [i \in 1..Len(obs.results) |->
            [title |-> obs.results[i].title,
             url |-> obs.results[i].url,
             snippet |-> obs.results[i].snippet,
             credibility |-> IF obs.results[i].credibility = "undefined" THEN "medium"
                             ELSE obs.results[i].credibility,
             source |-> IF obs.source_type = "undefined" THEN "agent"
                        ELSE obs.source_type,
             verdict |-> obs.results[i].verdict,
             score |-> obs.results[i].score]]
    ELSE <<>>

(***************************************************************************)
(* evidence-assessment.js                                                  *)
(* A score is the exact fraction [num, den]; the code computes the same    *)
(* quantities in floating point.                                           *)
(***************************************************************************)
Frac(n, d) == [num |-> n, den |-> d]

RECURSIVE GCD(_, _)
GCD(m, n) == IF n = 0 THEN m ELSE GCD(n, m % n)

\* a >= b and a < b on fractions, cross-multiplied over the reduced denominators
FracGeq(a, b) ==
    LET g == GCD(a.den, b.den)
    IN  a.num * (b.den \div g) >= b.num * (a.den \div g)
FracLt(a, b) == ~FracGeq(a, b)

MIN_SOURCES == 2

MIN_SCORE_half == Frac(1, 2)

MIN_SCORE_seventy == Frac(7, 10)

\* MIN_SCORE = 0.6
MIN_SCORE == Frac(3, 5)

credibilityWeight_highAsMedium(credibility) ==
    CASE credibility = "high" -> 7
      [] credibility = "medium" -> 10
      [] credibility = "low" -> 4
      [] credibility = "very_low" -> 2
      [] OTHER -> 5

\* credibilityScores[e.credibility] || 0.5, in tenths
credibilityWeight(credibility) ==
    CASE credibility = "high" -> 10
      [] credibility = "medium" -> 7
      [] credibility = "low" -> 4
      [] credibility = "very_low" -> 2
      [] OTHER -> 5

RECURSIVE SumOver(_, _, _)
SumOver(f(_), xs, i) == IF i > Len(xs) THEN 0 ELSE f(xs[i]) + SumOver(f, xs, i + 1)

snippetLength(e) == IF e.snippet = UndefStr THEN 0 ELSE Len(e.snippet)
credibilityOf(e) == credibilityWeight(e.credibility)

\* does some evidence snippet or title mention the entity, ignoring case
mentioned(evidence, entity) ==
    \E i \in 1..Len(evidence) :
        \/ (evidence[i].snippet # UndefStr
            /\ includes(toLowerCase(evidence[i].snippet), toLowerCase(entity)))
        \/ (evidence[i].title # UndefStr
            /\ includes(toLowerCase(evidence[i].title), toLowerCase(entity)))

EmptyAssessment_quantityCounted ==
    [isSufficient |-> FALSE, score |-> Frac(3, 10), quantity |-> Frac(1, 1),
     quality |-> Frac(0, 1), relevance |-> Frac(0, 1), credibility |-> Frac(0, 1),
     missingAspects |-> <<"No evidence sources found">>,
     recommendation |-> "NOT_ENOUGH_EVIDENCE - No sources available"]

EmptyAssessment ==
    [isSufficient |-> FALSE, score |-> Frac(0, 1), quantity |-> Frac(0, 1),
     quality |-> Frac(0, 1), relevance |-> Frac(0, 1), credibility |-> Frac(0, 1),
     missingAspects |-> <<"No evidence sources found">>,
     recommendation |-> "NOT_ENOUGH_EVIDENCE - No sources available"]

assessEvidenceSufficiency(evidence, a) ==
    LET n == Len(evidence)
        credSum == SumOver(credibilityOf, evidence, 1)
        lenSum == SumOver(snippetLength, evidence, 1)
        highCred == Cardinality({i \in 1..n : evidence[i].credibility \in {"high", "very_high"}})
        sourceTypes == {evidence[i].source : i \in 1..n} \ {"undefined", ""}
        k == Cardinality(sourceTypes)
        ents == a.entities
        e == Len(ents)
        covered == Cardinality({j \in 1..e : mentioned(evidence, ents[j])})
        measured == a.complexity = "complex" /\ e > 0
        \* the sub-scores as fractions
        quantity == Frac(Min(n, 3), 3)
        credibility == Frac(credSum, 10 * n)
        relevance == Frac(Min(lenSum, 200 * n), 200 * n)
        diversity == Frac(Min(k, 2), 2)
        coverage == IF measured THEN Frac(covered, e) ELSE Frac(1, 1)
        \* quality and score over the common denominator 600 * n * ee
        ee == IF measured THEN e ELSE 1
        D == 600 * n * ee
        over(f) == (f.num * D) \div f.den
        qualityNum == 40 * over(credibility) + 30 * over(relevance)
                        + 15 * over(diversity) + 15 * over(coverage)
        quality == Frac(qualityNum, 100 * D)
        scoreNum == 30 * 100 * over(quantity) + 70 * qualityNum
        score == Frac(scoreNum, 10000 * D)
        sufficient == /\ n >= MIN_SOURCES
                      /\ FracGeq(score, MIN_SCORE)
                      /\ FracGeq(quality, MIN_SCORE)
        missing ==
            (IF n < 3 THEN <<"Only few source(s) found, recommend 3+">> ELSE <<>>)
         \o (IF highCred = 0 THEN <<"No high-credibility sources found">> ELSE <<>>)
         \o (IF lenSum < 50 * n THEN <<"Evidence snippets are too brief/vague">> ELSE <<>>)
         \o (IF k = 1
             THEN <<"Evidence from only one source type - consider diversifying">>
             ELSE <<>>)
         \o (IF measured /\ FracLt(coverage, Frac(1, 2))
             THEN <<"Evidence does not cover all key entities in the claim">>
             ELSE <<>>)
         \o (IF /\ a.temporality \in {"current", "recent"}
                /\ ~\E i \in 1..n : evidence[i].source \in {"web", "web_current"}
             THEN <<"No recent web sources for time-sensitive claim">>
             ELSE <<>>)
    IN  IF n = 0 THEN EmptyAssessment
        ELSE [isSufficient |-> sufficient, score |-> score, quantity |-> quantity,
              quality |-> quality, relevance |-> relevance,
              credibility |-> credibility, missingAspects |-> missing,
              recommendation |->
                  IF sufficient THEN "SUFFICIENT - Proceed with verification"
                  ELSE IF n < MIN_SOURCES THEN "INSUFFICIENT - Need more sources"
                  ELSE IF FracLt(quality, MIN_SCORE)
                  THEN "INSUFFICIENT - Evidence quality too low"
                  ELSE "MARGINAL - Verification possible but uncertain"]

(***************************************************************************)
(* verification-pipeline.js: verifyClaimWithPipeline                       *)
(***************************************************************************)
VARIABLES
    pc,                 \* the await / statement the request is at
    claim,              \* the claim text
    options,            \* the options object of the call
    pineconeAvailable,  \* isPineconeAvailable()
    tavilyAvailable,    \* isTavilyAvailable()
    analysis,           \* const analysis
    classifierFailed,   \* analyzeClaim took its catch branch
    strategy,           \* const strategy
    strategyConfig,     \* const strategyConfig
    agent,              \* the locals of runVerificationAgent
    evidence,           \* let evidence
    retrieval,          \* what the two awaited queries of retrieveEvidence did
    assessment,         \* const sufficiencyAssessment
    generated,          \* the verdict verifyWithEvidence returned
    verdict,            \* let verdict
    verdictFailed,      \* verifyWithEvidence took its catch branch
    critique,           \* let critique
    critiqueFailed,     \* critiqueVerification took its catch branch
    result,             \* the object returned, or the error thrown
    stages,             \* the pipeline steps entered so far, in order
    calls,              \* the external calls made so far, in order
    vectordb,           \* module scope of the vector-db client: pinecone, index
    callers             \* the calls into the vector-db client, each at its await

vars == <<pc, claim, options, pineconeAvailable, tavilyAvailable, analysis,
          classifierFailed, strategy, strategyConfig, agent, evidence, assessment,
          generated, verdict, verdictFailed, critique, critiqueFailed, result, stages,
          calls, retrieval, vectordb, callers>>

\* let pinecone = null; let index = null; with PINECONE_API_KEY set or not
NullVectorDb(apiKey) == [apiKey |-> apiKey, pinecone |-> FALSE, index |-> FALSE]

\* a call that has not been made yet
NoCall == [op |-> "none", pc |-> "idle", ret |-> "none"]

Analysis(type, entities, isRecent, keywords, temporality, complexity) ==
    [type |-> type, entities |-> entities, isRecent |-> isRecent,
     keywords |-> keywords, temporality |-> temporality, complexity |-> complexity]

\* the i-th entity name and the first n of them
EntityName(i) == <<"e", LowerChars[i]>>
Entities(n) == [i \in 1..n |-> EntityName(i)]

DefaultAnalysis_noKeywords(c) ==
    Analysis("fact", <<>>, FALSE, <<>>, "timeless", "simple")

\* the object analyzeClaim returns from its catch branch
DefaultAnalysis(c) == Analysis("fact", <<>>, FALSE, <<c>>, "timeless", "simple")

NullAnalysis == Analysis("undefined", <<>>, FALSE, <<>>, "undefined", "undefined")

\* analyses the classifier can return (ClaimAnalysisSchema)
ClassifierAnalyses ==
    { Analysis("fact", <<>>, FALSE, <<<<"s","k","y">>>>, "timeless", "simple"),
      Analysis("opinion", Entities(2), FALSE, <<<<"e","c","o","n","o","m","y">>>>, "recent", "moderate"),
      Analysis("news", Entities(1), TRUE, <<<<"D","i","s","p","u","t","e","d">>>>, "current", "moderate"),
      Analysis("fact", Entities(2), FALSE, <<>>, "historical", "complex"),
      Analysis("prediction", Entities(MaxEntities), TRUE, <<<<"a">>>>, "recent", "simple") }

Claims == { <<"c","l","a","i","m","s">>, <<"s","k","y">> }

Options(useWebSearch, useVectorSearch, forceStrategy, enableCritique) ==
    [useWebSearch |-> useWebSearch, useVectorSearch |-> useVectorSearch,
     forceStrategy |-> forceStrategy, enableCritique |-> enableCritique]

\* option objects of POST /verify: the defaults and each option changed
OptionSets ==
    { Options(TRUE, TRUE, "null", TRUE),
      Options(TRUE, TRUE, SIMPLE, TRUE),
      Options(TRUE, TRUE, HYBRID, TRUE),
      Options(TRUE, TRUE, AGENTIC, TRUE),
      Options(TRUE, TRUE, "null", FALSE),
      Options(FALSE, TRUE, "null", TRUE),
      Options(TRUE, FALSE, "null", TRUE) }

Citation(index, title, url) ==
    [index |-> index, title |-> title, url |-> url, relevance |-> "relevant",
     snippet |-> UndefStr, credibility |-> "undefined"]

Verdict(label, confidence, reasoning, citations) ==
    [verdict |-> label, confidence |-> confidence, reasoning |-> reasoning,
     citations |-> citations]

NullVerdict == Verdict("undefined", 0, <<>>, <<>>)
NullCritique == [isValid |-> TRUE, confidence |-> 0, issues |-> <<>>]
NullAgent == [toolSequence |-> <<>>, i |-> 0, allEvidence |-> <<>>, steps |-> <<>>,
              stopped |-> FALSE]
NullConfig == getStrategyConfig(HYBRID, NullAnalysis)

\* verdicts the verdict completion can return (VerdictSchema)
CompletionVerdicts ==
    { Verdict("TRUE", 80, <<"o","k"," ","[","1","]">>,
              <<Citation(1, <<"A">>, <<"u","1">>), Citation(2, <<"B">>, <<"u","2">>)>>),
      Verdict("FALSE", 95, <<"n","o"," ","[","7","]">>, <<Citation(7, <<"Z">>, <<"u","7">>)>>),
      Verdict("NOT_ENOUGH_EVIDENCE", 20, <<"n","o","n","e">>, <<>>),
      Verdict("PARTIALLY_TRUE", 30, <<"s","o"," ","[","2","]","[","1","]">>,
              <<Citation(2, <<"A","B">>, <<"u","2">>), Citation(1, <<"A">>, <<"u","1">>)>>) }

Issue(type, severity, description) ==
    [type |-> type, severity |-> severity, description |-> description]

Critique(isValid, confidence, issues) ==
    [isValid |-> isValid, confidence |-> confidence, issues |-> issues]

\* critiques the critique completion can return (CritiqueSchema)
CompletionCritiques ==
    { Critique(TRUE, 90, <<>>),
      Critique(TRUE, 60, <<Issue("hallucination", "critical", <<"A"," ","i","s"," ","m","a","d","e"," ","u","p">>)>>),
      Critique(FALSE, 70, <<Issue("confidence_miscalibrated", "major", <<"t","o","o"," ","h","i","g","h">>)>>),
      Critique(FALSE, 70, <<Issue("confidence_miscalibrated", "critical", <<"w","a","y"," ","t","o","o"," ","h","i","g","h">>)>>),
      Critique(FALSE, 80, <<Issue("verdict_unsupported", "critical", <<"w","e","a","k">>)>>),
      Critique(FALSE, 80, <<Issue("hallucination", "critical", <<"A"," ","i","s"," ","m","a","d","e"," ","u","p">>)>>),
      Critique(FALSE, 80, <<Issue("citation_invalid", "critical", <<"i","n","d","e","x"," ","7">>)>>),
      Critique(FALSE, 75, <<Issue("citation_invalid", "critical", <<"i","n","d","e","x"," ","7">>),
                            Issue("confidence_miscalibrated", "major", <<"t","o","o"," ","h","i","g","h">>)>>),
      Critique(FALSE, 85, <<Issue("verdict_unsupported", "critical", <<"w","e","a","k">>),
                            Issue("confidence_miscalibrated", "critical", <<"t","o","o"," ","l","o","w">>)>>) }

Outcome(throws, items) == [throws |-> throws, items |-> items]

\* outcomes of the awaited knowledge-base query
KBOutcomes == {Outcome(TRUE, <<>>)} \cup {Outcome(FALSE, l) : l \in KBLists}

\* no query awaited yet
NullRetrieval == [kb |-> Outcome(FALSE, <<>>), web |-> Outcome(FALSE, <<>>)]

Init ==
    /\ pc = "classify"
    /\ claim \in Claims
    /\ options \in OptionSets
    /\ pineconeAvailable \in BOOLEAN
    /\ tavilyAvailable \in BOOLEAN
    /\ analysis = NullAnalysis
    /\ classifierFailed = FALSE
    /\ strategy = "undefined"
    /\ strategyConfig = NullConfig
    /\ agent = NullAgent
    /\ evidence = <<>>
    /\ retrieval = NullRetrieval
    /\ assessment = EmptyAssessment
    /\ generated = NullVerdict
    /\ verdict = NullVerdict
    /\ verdictFailed = FALSE
    /\ critique = NullCritique
    /\ critiqueFailed = FALSE
    /\ result = [kind |-> "none", verdict |-> NullVerdict]
    /\ stages = <<>>
    /\ calls = <<>>
    /\ vectordb = NullVectorDb(TRUE)
    /\ callers = [t \in 1..MaxCalls |-> NoCall]

\* STEP 1: await analyzeClaim(claim)
Classify ==
    /\ pc = "classify"
    /\ \/ \E a \in ClassifierAnalyses :
            /\ analysis' = a
            /\ classifierFailed' = FALSE
       \/ /\ analysis' = DefaultAnalysis(claim)
          /\ classifierFailed' = TRUE
    /\ pc' = "route"
    /\ stages' = Append(stages, "classify")
    /\ calls' = Append(calls, "classifier")
    /\ UNCHANGED <<claim, options, pineconeAvailable, tavilyAvailable, strategy,
                   strategyConfig, agent, evidence, assessment, generated,
                   verdict, critique, verdictFailed, critiqueFailed, result, retrieval,
                   vectordb, callers>>

\* STEP 2: forceStrategy || routeClaim(analysis), getStrategyConfig
Route ==
    /\ pc = "route"
    /\ LET s == IF options.forceStrategy # "null" THEN options.forceStrategy
                ELSE routeClaim(analysis)
       IN  /\ strategy' = s
           /\ strategyConfig' = getStrategyConfig(s, analysis)
    /\ pc' = "retrieve"
    /\ stages' = Append(stages, "route")
    /\ UNCHANGED <<claim, options, pineconeAvailable, tavilyAvailable, analysis,
                   classifierFailed, agent, evidence, assessment, generated,
                   verdict, critique, verdictFailed, critiqueFailed, result,
                   calls, retrieval,
                   vectordb, callers>>

\* STEP 3, SIMPLE and HYBRID: await retrieveEvidence(claim, analysis, {...})
RetrieveEvidence ==
    /\ pc = "retrieve"
    /\ strategy # AGENTIC
    /\ LET opts == [useWebSearch |-> strategyConfig.useWebSearch,
                    useVectorSearch |-> strategyConfig.useVectorSearch,
                    maxSources |-> strategyConfig.maxSources]
           asksKb == opts.useVectorSearch /\ pineconeAvailable
           asksWeb == opts.useWebSearch
       IN  \E kb \in (IF asksKb THEN KBOutcomes ELSE {Outcome(FALSE, <<>>)}),
              webThrows \in (IF asksWeb THEN BOOLEAN ELSE {FALSE}),
              tavily \in (IF asksWeb THEN TavilyLists ELSE {<<>>}),
              wiki \in (IF asksWeb THEN WikiLists ELSE {<<>>}) :
              LET web == Outcome(webThrows,
                                 IF webThrows THEN <<>>
                                 ELSE searchWeb(analysis.temporality, tavilyAvailable,
                                                tavily, wiki))
              IN  /\ evidence' = retrieveEvidence(opts, pineconeAvailable, kb, web)
                  /\ retrieval' = [kb |-> kb, web |-> web]
                  /\ calls' = calls \o (IF asksKb THEN <<"knowledge_base">> ELSE <<>>)
                                    \o (IF asksWeb THEN <<"web">> ELSE <<>>)
    /\ pc' = "assess"
    /\ stages' = Append(stages, "retrieve")
    /\ UNCHANGED <<claim, options, pineconeAvailable, tavilyAvailable, analysis,
                   classifierFailed, strategy, strategyConfig, agent,
                   assessment, generated, verdict, critique, verdictFailed,
                   critiqueFailed, result,
                   vectordb, callers>>

\* STEP 3, AGENTIC: runVerificationAgent up to its loop
AgentStart ==
    /\ pc = "retrieve"
    /\ strategy = AGENTIC
    /\ agent' = [toolSequence |-> buildSearchStrategy(analysis), i |-> 0,
                 allEvidence |-> <<>>, steps |-> <<>>, stopped |-> FALSE]
    /\ pc' = "agent"
    /\ stages' = Append(stages, "retrieve")
    /\ UNCHANGED <<claim, options, pineconeAvailable, tavilyAvailable, analysis,
                   classifierFailed, strategy, strategyConfig, evidence,
                   assessment, generated, verdict, critique, verdictFailed,
                   critiqueFailed, result, calls, retrieval,
                   vectordb, callers>>

\* what the tool named toolName returns for the given answers of the services
runTool(toolName, kb, tavily1, tavily2, wiki) ==
    CASE toolName = KB_TOOL -> searchKnowledgeBaseTool(pineconeAvailable, kb)
      [] toolName = CURRENT_TOOL ->
            searchWebCurrentTool(tavilyAvailable, tavily1, tavily2, wiki)
      [] toolName = HISTORICAL_TOOL ->
            searchWebHistoricalTool(tavilyAvailable, tavily1, tavily2, wiki)

AgentStep_noEarlyStop ==
    /\ pc = "agent"
    /\ ~agent.stopped
    /\ agent.i < Len(agent.toolSequence)
    /\ agent.i < MaxIterations
    /\ LET toolName == agent.toolSequence[agent.i + 1]
           isKb == toolName = KB_TOOL
       IN  /\ calls' = Append(calls, toolName)
           /\ \/ \* tool.func or JSON.parse throws: caught, next iteration
                 agent' = [agent EXCEPT !.i = agent.i + 1]
              \/ \E kb \in (IF isKb /\ pineconeAvailable THEN KBOutcomes
                            ELSE {Outcome(FALSE, <<>>)}),
                    tavily1 \in (IF ~isKb /\ tavilyAvailable THEN TavilyLists ELSE {<<>>}),
                    tavily2 \in (IF toolName = CURRENT_TOOL /\ tavilyAvailable
                                 THEN TavilyLists ELSE {<<>>}),
                    wiki \in (IF isKb THEN {<<>>} ELSE WikiLists) :
                    LET obs == runTool(toolName, kb, tavily1, tavily2, wiki)
                        all == agent.allEvidence \o collectEvidence(obs)
                    IN  agent' = [agent EXCEPT
                                    !.i = agent.i + 1,
                                    !.steps = Append(agent.steps, toolName),
                                    !.allEvidence = all,
                                    !.stopped = FALSE]
    /\ UNCHANGED <<pc, claim, options, pineconeAvailable, tavilyAvailable,
                   analysis, classifierFailed, strategy, strategyConfig,
                   evidence, assessment, generated, verdict, critique,
                   verdictFailed, critiqueFailed, result, stages, retrieval,
                   vectordb, callers>>

AgentStep_abortOnThrow ==
    /\ pc = "agent"
    /\ ~agent.stopped
    /\ agent.i < Len(agent.toolSequence)
    /\ agent.i < MaxIterations
    /\ LET toolName == agent.toolSequence[agent.i + 1]
           isKb == toolName = KB_TOOL
       IN  /\ calls' = Append(calls, toolName)
           /\ \/ \* tool.func or JSON.parse throws: caught
                 agent' = [agent EXCEPT !.i = agent.i + 1, !.stopped = TRUE]
              \/ \E kb \in (IF isKb /\ pineconeAvailable THEN KBOutcomes
                            ELSE {Outcome(FALSE, <<>>)}),
                    tavily1 \in (IF ~isKb /\ tavilyAvailable THEN TavilyLists ELSE {<<>>}),
                    tavily2 \in (IF toolName = CURRENT_TOOL /\ tavilyAvailable
                                 THEN TavilyLists ELSE {<<>>}),
                    wiki \in (IF isKb THEN {<<>>} ELSE WikiLists) :
                    LET obs == runTool(toolName, kb, tavily1, tavily2, wiki)
                        all == agent.allEvidence \o collectEvidence(obs)
                    IN  agent' = [agent EXCEPT
                                    !.i = agent.i + 1,
                                    !.steps = Append(agent.steps, toolName),
                                    !.allEvidence = all,
                                    !.stopped = Len(all) >= EarlyStopCount]
    /\ UNCHANGED <<pc, claim, options, pineconeAvailable, tavilyAvailable,
                   analysis, classifierFailed, strategy, strategyConfig,
                   evidence, assessment, generated, verdict, critique,
                   verdictFailed, critiqueFailed, result, stages, retrieval,
                   vectordb, callers>>

\* one iteration of the loop of runVerificationAgent
AgentStep ==
    /\ pc = "agent"
    /\ ~agent.stopped
    /\ agent.i < Len(agent.toolSequence)
    /\ agent.i < MaxIterations
    /\ LET toolName == agent.toolSequence[agent.i + 1]
           isKb == toolName = KB_TOOL
       IN  /\ calls' = Append(calls, toolName)
           /\ \/ \* tool.func or JSON.parse throws: caught, next iteration
                 agent' = [agent EXCEPT !.i = agent.i + 1]
              \/ \E kb \in (IF isKb /\ pineconeAvailable THEN KBOutcomes
                            ELSE {Outcome(FALSE, <<>>)}),
                    tavily1 \in (IF ~isKb /\ tavilyAvailable THEN TavilyLists ELSE {<<>>}),
                    tavily2 \in (IF toolName = CURRENT_TOOL /\ tavilyAvailable
                                 THEN TavilyLists ELSE {<<>>}),
                    wiki \in (IF isKb THEN {<<>>} ELSE WikiLists) :
                    LET obs == runTool(toolName, kb, tavily1, tavily2, wiki)
                        all == agent.allEvidence \o collectEvidence(obs)
                    IN  agent' = [agent EXCEPT
                                    !.i = agent.i + 1,
                                    !.steps = Append(agent.steps, toolName),
                                    !.allEvidence = all,
                                    !.stopped = Len(all) >= EarlyStopCount]
    /\ UNCHANGED <<pc, claim, options, pineconeAvailable, tavilyAvailable,
                   analysis, classifierFailed, strategy, strategyConfig,
                   evidence, assessment, generated, verdict, critique,
                   verdictFailed, critiqueFailed, result, stages, retrieval,
                   vectordb, callers>>

\* the loop of runVerificationAgent has ended: evidence = agentResult.evidence
AgentFinish ==
    /\ pc = "agent"
    /\ \/ agent.stopped
       \/ agent.i >= Len(agent.toolSequence)
       \/ agent.i >= MaxIterations
    /\ evidence' = agent.allEvidence
    /\ pc' = "assess"
    /\ UNCHANGED <<claim, options, pineconeAvailable, tavilyAvailable, analysis,
                   classifierFailed, strategy, strategyConfig, agent,
                   assessment, generated, verdict, critique, verdictFailed,
                   critiqueFailed, result, stages, calls, retrieval,
                   vectordb, callers>>

Assess_gated ==
    /\ pc = "assess"
    /\ assessment' = assessEvidenceSufficiency(evidence, analysis)
    /\ stages' = Append(stages, "assess")
    /\ IF assessment'.isSufficient
       THEN pc' = "verify" /\ UNCHANGED <<result, verdict>>
       ELSE /\ pc' = "return"
            /\ verdict' = Verdict("NOT_ENOUGH_EVIDENCE", 0, <<>>, <<>>)
            /\ UNCHANGED result
    /\ UNCHANGED <<claim, options, pineconeAvailable, tavilyAvailable, analysis,
                   classifierFailed, strategy, strategyConfig, agent, evidence,
                   generated, critique, verdictFailed, critiqueFailed,
                   calls, retrieval,
                   vectordb, callers>>

\* STEP 4: assessEvidenceSufficiency(evidence, analysis)
Assess ==
    /\ pc = "assess"
    /\ assessment' = assessEvidenceSufficiency(evidence, analysis)
    /\ pc' = "verify"
    /\ stages' = Append(stages, "assess")
    /\ UNCHANGED <<claim, options, pineconeAvailable, tavilyAvailable, analysis,
                   classifierFailed, strategy, strategyConfig, agent, evidence,
                   generated, verdict, critique, verdictFailed, critiqueFailed,
                   result, calls, retrieval,
                   vectordb, callers>>

\* the citation back-fill of verifyWithEvidence
enhanceCitations_zeroBased(v, ev) ==
    [v EXCEPT !.citations =
        [i \in 1..Len(v.citations) |->
            LET c == v.citations[i]
                inRange == c.index + 1 >= 1 /\ c.index + 1 <= Len(ev)
            IN  [c EXCEPT !.snippet = IF inRange THEN ev[c.index + 1].snippet
                                      ELSE UndefStr,
                          !.credibility = IF inRange THEN ev[c.index + 1].credibility
                                          ELSE "undefined"]]]

\* the citations of result after the map of verifyWithEvidence:
\* evidence[citation.index - 1] of a 0-based array is ev[c.index] here
enhanceCitations(v, ev) ==
    [v EXCEPT !.citations =
        [i \in 1..Len(v.citations) |->
            LET c == v.citations[i]
                inRange == c.index >= 1 /\ c.index <= Len(ev)
            IN  [c EXCEPT !.snippet = IF inRange THEN ev[c.index].snippet ELSE UndefStr,
                          !.credibility = IF inRange THEN ev[c.index].credibility
                                          ELSE "undefined"]]]

Verify_fallbackVerdict ==
    /\ pc = "verify"
    /\ stages' = Append(stages, "verify")
    /\ calls' = Append(calls, "verdict_completion")
    /\ \/ /\ verdictFailed' = TRUE
          /\ generated' = Verdict("NOT_ENOUGH_EVIDENCE", 0, <<>>, <<>>)
          /\ verdict' = Verdict("NOT_ENOUGH_EVIDENCE", 0, <<>>, <<>>)
       \/ \E v \in CompletionVerdicts :
            /\ generated' = enhanceCitations(v, evidence)
            /\ verdict' = enhanceCitations(v, evidence)
            /\ verdictFailed' = FALSE
    /\ pc' = IF options.enableCritique THEN "critique" ELSE "return"
    /\ UNCHANGED <<claim, options, pineconeAvailable, tavilyAvailable, analysis,
                   classifierFailed, strategy, strategyConfig, agent, evidence,
                   assessment, critique, critiqueFailed, result, retrieval,
                   vectordb, callers>>

\* STEP 5: await verifyWithEvidence(claim, evidence)
Verify ==
    /\ pc = "verify"
    /\ stages' = Append(stages, "verify")
    /\ calls' = Append(calls, "verdict_completion")
    /\ \/ \* the completion call fails: throw new Error('Verification failed: ...')
          /\ verdictFailed' = TRUE
          /\ pc' = "failed"
          /\ result' = [kind |-> "Verification failed", verdict |-> NullVerdict]
          /\ UNCHANGED <<generated, verdict>>
       \/ \E v \in CompletionVerdicts :
            /\ generated' = enhanceCitations(v, evidence)
            /\ verdict' = enhanceCitations(v, evidence)
            /\ verdictFailed' = FALSE
            /\ pc' = IF options.enableCritique THEN "critique" ELSE "return"
            /\ UNCHANGED result
    /\ UNCHANGED <<claim, options, pineconeAvailable, tavilyAvailable, analysis,
                   classifierFailed, strategy, strategyConfig, agent, evidence,
                   assessment, critique, critiqueFailed, retrieval,
                   vectordb, callers>>

\* STEP 6: await critiqueVerification(claim, verdict, evidence)
CritiqueVerification ==
    /\ pc = "critique"
    /\ stages' = Append(stages, "critique")
    /\ calls' = Append(calls, "critique_completion")
    /\ \/ \* the completion call throws: the catch branch
          /\ critique' = FailOpenCritique
          /\ critiqueFailed' = TRUE
       \/ /\ critique' \in CompletionCritiques
          /\ critiqueFailed' = FALSE
    /\ pc' = IF shouldRegenerateVerification(critique') THEN "correct" ELSE "return"
    /\ UNCHANGED <<claim, options, pineconeAvailable, tavilyAvailable, analysis,
                   classifierFailed, strategy, strategyConfig, agent, evidence,
                   assessment, generated, verdict, verdictFailed, result, retrieval,
                   vectordb, callers>>

Correct_regenerate ==
    /\ pc = "correct"
    /\ verdict' = applyCritiqueSuggestions(verdict, critique)
    /\ pc' = "verify"
    /\ stages' = Append(stages, "correct")
    /\ UNCHANGED <<claim, options, pineconeAvailable, tavilyAvailable, analysis,
                   classifierFailed, strategy, strategyConfig, agent, evidence,
                   assessment, generated, critique, verdictFailed,
                   critiqueFailed, result, calls, retrieval,
                   vectordb, callers>>

\* verdict = applyCritiqueSuggestions(verdict, critique)
Correct ==
    /\ pc = "correct"
    /\ verdict' = applyCritiqueSuggestions(verdict, critique)
    /\ pc' = "return"
    /\ stages' = Append(stages, "correct")
    /\ UNCHANGED <<claim, options, pineconeAvailable, tavilyAvailable, analysis,
                   classifierFailed, strategy, strategyConfig, agent, evidence,
                   assessment, generated, critique, verdictFailed,
                   critiqueFailed, result, calls, retrieval,
                   vectordb, callers>>

\* return { ...verdict, claimAnalysis, strategy, evidenceSufficiency, critique };
\* the fields besides the verdict are copies of analysis, strategy, assessment
\* and critique
Return ==
    /\ pc = "return"
    /\ result' = [kind |-> "returned", verdict |-> verdict]
    /\ pc' = "done"
    /\ UNCHANGED <<claim, options, pineconeAvailable, tavilyAvailable, analysis,
                   classifierFailed, strategy, strategyConfig, agent, evidence,
                   assessment, generated, verdict, critique, verdictFailed,
                   critiqueFailed, stages, calls, retrieval,
                   vectordb, callers>>

Next ==
    \/ Classify
    \/ Route
    \/ RetrieveEvidence
    \/ AgentStart
    \/ AgentStep
    \/ AgentFinish
    \/ Assess
    \/ Verify
    \/ CritiqueVerification
    \/ Correct
    \/ Return

Spec == Init /\ [][Next]_vars

(***************************************************************************)
(* routeClaim as a function: every analysis of a bounded domain is routed  *)
(***************************************************************************)
RouteTypes == {"fact", "opinion", "news", "statistical", "numerical", "scientific"}
Temporalities == {"timeless", "historical", "recent", "current"}
Complexities == {"simple", "moderate", "complex"}

KeywordLists ==
    { <<>>,
      <<<<"e","c","o","n","o","m","y">>>>,
      <<<<"D","i","s","p","u","t","e","d">>>>,
      <<<<"C","L","A","I","M","S">>>>,
      <<<<"c","l","a","i","m">>>>,
      <<<<"a","l","l","e","g","e","d"," ">>>>,
      <<<<"e","c","o","n","o","m","y">>, <<"r","e","P","o","r","t","e","d","l","y">>>>,
      <<<<"c","o","n","t","r","o","v","e","r","s","i","a","l">>, <<"e","c","o","n","o","m","y">>>> }

RouteAnalyses ==
    { Analysis(t, Entities(n), r, k, tm, c) :
        t \in RouteTypes, n \in 0..MaxEntities, r \in BOOLEAN, k \in KeywordLists,
        tm \in Temporalities, c \in Complexities }

\* the variables a function specification does not use
Unused(used) ==
    /\ "claim" \in used \/ claim = <<>>
    /\ "options" \in used \/ options = Options(TRUE, TRUE, "null", TRUE)
    /\ pineconeAvailable = FALSE
    /\ tavilyAvailable = FALSE
    /\ "analysis" \in used \/ analysis = NullAnalysis
    /\ classifierFailed = FALSE
    /\ "strategy" \in used \/ strategy = "undefined"
    /\ "strategyConfig" \in used \/ strategyConfig = NullConfig
    /\ agent = NullAgent
    /\ "evidence" \in used \/ evidence = <<>>
    /\ retrieval = NullRetrieval
    /\ "assessment" \in used \/ assessment = EmptyAssessment
    /\ "verdict" \in used \/ (generated = NullVerdict /\ verdict = NullVerdict)
    /\ verdictFailed = FALSE
    /\ "critique" \in used \/ critique = NullCritique
    /\ critiqueFailed = FALSE
    /\ result = [kind |-> "none", verdict |-> NullVerdict]
    /\ "stages" \in used \/ stages = <<>>
    /\ "calls" \in used \/ calls = <<>>
    /\ vectordb = NullVectorDb(TRUE)
    /\ callers = [t \in 1..MaxCalls |-> NoCall]

InitRoute ==
    /\ pc = "routeClaim"
    /\ analysis \in RouteAnalyses
    /\ Unused({"analysis"})

\* strategy = routeClaim(analysis)
CallRouteClaim ==
    /\ pc = "routeClaim"
    /\ strategy' = routeClaim(analysis)
    /\ pc' = "routed"
    /\ UNCHANGED <<claim, options, pineconeAvailable, tavilyAvailable, analysis,
                   classifierFailed, strategyConfig, agent, evidence, assessment,
                   generated, verdict, verdictFailed, critique, critiqueFailed,
                   result, stages, calls, retrieval,
                   vectordb, callers>>

NextRoute == CallRouteClaim

SpecRoute == InitRoute /\ [][NextRoute]_vars

(***************************************************************************)
(* applyCritiqueSuggestions as a function: every verdict and critique of a *)
(* bounded domain                                                          *)
(***************************************************************************)
CitationLists ==
    { <<>>,
      <<Citation(1, <<"A">>, <<"u","1">>), Citation(2, <<"B">>, <<"u","2">>)>>,
      <<Citation(2, <<"A","B">>, <<"u","2">>), Citation(1, <<"A">>, <<"u","1">>),
        Citation(7, <<"Z">>, <<"u","7">>)>> }

CorrectVerdicts ==
    { Verdict(l, c, <<"o","k">>, cs) :
        l \in {"TRUE", "NOT_ENOUGH_EVIDENCE"}, c \in {0, 30, 45, 80, 100},
        cs \in CitationLists }

IssuePool ==
    { Issue(t, sv, d) :
        t \in {"confidence_miscalibrated"}, sv \in {"critical", "major"},
        d \in {<<"t","o","o"," ","h","i","g","h">>, <<"i","s"," ","t","o","o"," ","l","o","w">>, <<"o","f","f">>} }
    \cup
    { Issue(t, sv, d) :
        t \in {"hallucination", "citation_invalid"}, sv \in {"critical", "major"},
        d \in {<<"A"," ","i","s"," ","m","a","d","e"," ","u","p">>, <<"B"," ","a","n","d"," ","Z">>} }
    \cup
    { Issue(t, sv, <<"w","e","a","k">>) :
        t \in {"verdict_unsupported", "other"}, sv \in {"critical", "minor"} }

\* the issue lists of at most n issues
RECURSIVE IssueLists(_)
IssueLists(n) ==
    IF n = 0 THEN {<<>>}
    ELSE IssueLists(n - 1)
         \cup {Append(l, i) : l \in {x \in IssueLists(n - 1) : Len(x) = n - 1},
                              i \in IssuePool}

CorrectCritiques ==
    { Critique(v, 80, l) : v \in BOOLEAN, l \in IssueLists(MaxIssues) }

InitCorrect ==
    /\ pc = "applyCritiqueSuggestions"
    /\ generated \in CorrectVerdicts
    /\ verdict = generated
    /\ critique \in CorrectCritiques
    /\ Unused({"verdict", "critique"})

\* verdict = applyCritiqueSuggestions(verdict, critique)
CallApplyCritiqueSuggestions ==
    /\ pc = "applyCritiqueSuggestions"
    /\ verdict' = applyCritiqueSuggestions(verdict, critique)
    /\ pc' = "corrected"
    /\ UNCHANGED <<claim, options, pineconeAvailable, tavilyAvailable, analysis,
                   classifierFailed, strategy, strategyConfig, agent, evidence,
                   assessment, generated, verdictFailed, critique, critiqueFailed,
                   result, stages, calls, retrieval,
                   vectordb, callers>>

NextCorrect == CallApplyCritiqueSuggestions

SpecCorrect == InitCorrect /\ [][NextCorrect]_vars

(***************************************************************************)
(* routeClaim on analyses with missing fields and unknown values           *)
(***************************************************************************)
AnalysisFields == {"type", "temporality", "complexity", "entities", "keywords", "isRecent"}

LooseBases ==
    { Analysis("unknown", <<>>, FALSE, <<>>, "unknown", "unknown"),
      Analysis("fact", Entities(1), TRUE, <<<<"C","l","a","i","m","s">>>>, "timeless", "simple"),
      Analysis("statistical", Entities(MaxEntities), TRUE, <<>>, "current", "complex"),
      Analysis("opinion", <<>>, TRUE, <<<<"e","c","o","n","o","m","y">>>>, "current", "moderate"),
      Analysis("scientific", Entities(2), FALSE, <<>>, "historical", "simple") }

\* the analyses that hold only the fields F of a base analysis
LooseAnalyses ==
    { [f \in F |-> a[f]] : F \in SUBSET AnalysisFields, a \in LooseBases }

InitRouteLoose ==
    /\ pc = "routeClaim"
    /\ analysis \in LooseAnalyses
    /\ Unused({"analysis"})

SpecRouteLoose == InitRouteLoose /\ [][NextRoute]_vars

(***************************************************************************)
(* getStrategyConfig as a function, called several times in a row          *)
(***************************************************************************)
MaxConfigCalls == 3

ConfigAnalyses ==
    { [temporality |-> t] : t \in Temporalities \cup {"unknown"} }
    \cup { [complexity |-> "complex"] }

InitConfig ==
    /\ pc = "getStrategyConfig"
    /\ analysis = NullAnalysis
    /\ strategy = "undefined"
    /\ strategyConfig = NullConfig
    /\ calls = <<>>
    /\ Unused({"analysis", "strategy", "strategyConfig", "calls"})

CallGetStrategyConfig_sharedTable ==
    /\ Len(calls) < MaxConfigCalls
    /\ \E s \in VerificationStrategy, a \in ConfigAnalyses :
         LET config == getStrategyConfig(s, a)
             before == s = strategy
         IN  /\ strategy' = s
             /\ analysis' = a
             /\ strategyConfig' =
                  [config EXCEPT
                     !.prioritizeWebSearch =
                         @ \/ (before /\ strategyConfig.prioritizeWebSearch),
                     !.prioritizeKnowledgeBase =
                         @ \/ (before /\ strategyConfig.prioritizeKnowledgeBase)]
             /\ calls' = Append(calls, s)
    /\ pc' = "configured"
    /\ UNCHANGED <<claim, options, pineconeAvailable, tavilyAvailable,
                   classifierFailed, agent, evidence, retrieval, assessment,
                   generated, verdict, verdictFailed, critique, critiqueFailed,
                   result, stages,
                   vectordb, callers>>

\* strategyConfig = getStrategyConfig(strategy, analysis): the table is built
\* anew by every call
CallGetStrategyConfig ==
    /\ Len(calls) < MaxConfigCalls
    /\ \E s \in VerificationStrategy, a \in ConfigAnalyses :
         /\ strategy' = s
         /\ analysis' = a
         /\ strategyConfig' = getStrategyConfig(s, a)
         /\ calls' = Append(calls, s)
    /\ pc' = "configured"
    /\ UNCHANGED <<claim, options, pineconeAvailable, tavilyAvailable,
                   classifierFailed, agent, evidence, retrieval, assessment,
                   generated, verdict, verdictFailed, critique, critiqueFailed,
                   result, stages,
                   vectordb, callers>>

NextConfig == CallGetStrategyConfig

SpecConfig == InitConfig /\ [][NextConfig]_vars

(***************************************************************************)
(* deduplicateEvidence as a function: every evidence list of a bounded     *)
(* domain, deduplicated and deduplicated again                             *)
(***************************************************************************)
MaxEvidence == 3

\* records as retrieveEvidence collects them: knowledge-base documents and
\* web results, some with the same key, some without a score or with score 0
DedupPool ==
    {vectorRecord(d) : d \in {D1, D2, D3, D5, DL1, DL2}}
    \cup {webRecord(searchTavily(<<R1, R2, R5, R6>>)[i]) : i \in 1..4}
    \cup {webRecord(W1)}

\* the lists of at most n records of pool
RECURSIVE ListsOf(_, _)
ListsOf(pool, n) ==
    IF n = 0 THEN {<<>>}
    ELSE ListsOf(pool, n - 1)
         \cup {Append(l, r) : l \in {x \in ListsOf(pool, n - 1) : Len(x) = n - 1},
                              r \in pool}

InitDedup ==
    /\ pc = "deduplicateEvidence"
    /\ evidence \in ListsOf(DedupPool, MaxEvidence)
    /\ stages = <<>>
    /\ Unused({"evidence", "stages"})

\* evidence = deduplicateEvidence(evidence), on the input and once more on
\* the result
CallDeduplicateEvidence ==
    /\ pc \in {"deduplicateEvidence", "deduplicated"}
    /\ evidence' = deduplicateEvidence(evidence)
    /\ pc' = IF pc = "deduplicateEvidence" THEN "deduplicated" ELSE "deduplicated again"
    /\ stages' = Append(stages, Len(evidence))
    /\ UNCHANGED <<claim, options, pineconeAvailable, tavilyAvailable, analysis,
                   classifierFailed, strategy, strategyConfig, agent, retrieval,
                   assessment, generated, verdict, verdictFailed, critique,
                   critiqueFailed, result, calls,
                   vectordb, callers>>

NextDedup == CallDeduplicateEvidence

SpecDedup == InitDedup /\ [][NextDedup]_vars

(***************************************************************************)
(* assessEvidenceSufficiency as a function: every evidence list and        *)
(* analysis of a bounded domain, assessed, and assessed with one more      *)
(* record                                                                  *)
(***************************************************************************)
Evidence(title, snippet, credibility, source) ==
    [title |-> title, url |-> <<"u">>, snippet |-> snippet,
     credibility |-> credibility, source |-> source, score |-> NoScore,
     verdict |-> "undefined"]

AssessPool ==
    { Evidence(<<"E","A">>, Rep("z", 200), "high", "vector"),
      Evidence(<<"t">>, <<>>, "high", "web"),
      Evidence(<<"t">>, Rep("z", 198) \o <<"e","b">>, "medium", "web"),
      Evidence(UndefStr, UndefStr, "low", "undefined"),
      Evidence(<<"t">>, Rep("z", 300), "unknown", "web_current") }

AssessAnalyses ==
    { Analysis("fact", Entities(MaxEntities), FALSE, <<>>, "historical", "complex"),
      Analysis("fact", <<>>, FALSE, <<>>, "timeless", "complex"),
      Analysis("news", Entities(2), TRUE, <<>>, "current", "simple"),
      Analysis("opinion", Entities(1), FALSE, <<>>, "recent", "moderate") }

InitAssess ==
    /\ pc = "assessEvidenceSufficiency"
    /\ evidence \in ListsOf(AssessPool, MaxEvidence)
    /\ analysis \in AssessAnalyses
    /\ assessment = EmptyAssessment
    /\ Unused({"evidence", "analysis", "assessment"})

\* assessment = assessEvidenceSufficiency(evidence, analysis)
CallAssessEvidenceSufficiency ==
    /\ pc = "assessEvidenceSufficiency"
    /\ assessment' = assessEvidenceSufficiency(evidence, analysis)
    /\ pc' = "assessed"
    /\ UNCHANGED <<claim, options, pineconeAvailable, tavilyAvailable, analysis,
                   classifierFailed, strategy, strategyConfig, agent, evidence,
                   retrieval, generated, verdict, verdictFailed, critique,
                   critiqueFailed, result, stages, calls,
                   vectordb, callers>>

\* assessment = assessEvidenceSufficiency([...evidence, r], analysis)
CallAssessWithOneMore ==
    /\ pc = "assessed"
    /\ \E r \in AssessPool :
         /\ evidence' = Append(evidence, r)
         /\ assessment' = assessEvidenceSufficiency(Append(evidence, r), analysis)
    /\ pc' = "assessed again"
    /\ UNCHANGED <<claim, options, pineconeAvailable, tavilyAvailable, analysis,
                   classifierFailed, strategy, strategyConfig, agent,
                   retrieval, generated, verdict, verdictFailed, critique,
                   critiqueFailed, result, stages, calls,
                   vectordb, callers>>

NextAssess ==
    \/ CallAssessEvidenceSufficiency
    \/ CallAssessWithOneMore

SpecAssess == InitAssess /\ [][NextAssess]_vars

(***************************************************************************)
(* runVerificationAgent on its own: the agent of an AGENTIC request, for   *)
(* every analysis buildSearchStrategy can be given (temporality or         *)
(* complexity absent or outside the schema included).  The loop is         *)
(* sequential code whose awaits settle, hence the fairness condition.      *)
(***************************************************************************)
PlanAnalyses ==
    { Analysis("fact", Entities(1), FALSE, <<>>, tm, c) :
        tm \in Temporalities \cup {"undefined", "future"},
        c \in Complexities \cup {"undefined"} }

InitAgent ==
    /\ pc = "retrieve"
    /\ claim = <<"s","k","y">>
    /\ options = Options(TRUE, TRUE, AGENTIC, TRUE)
    /\ pineconeAvailable \in BOOLEAN
    /\ tavilyAvailable \in BOOLEAN
    /\ analysis \in PlanAnalyses
    /\ classifierFailed = FALSE
    /\ strategy = AGENTIC
    /\ strategyConfig = getStrategyConfig(AGENTIC, NullAnalysis)
    /\ agent = NullAgent
    /\ evidence = <<>>
    /\ retrieval = NullRetrieval
    /\ assessment = EmptyAssessment
    /\ generated = NullVerdict
    /\ verdict = NullVerdict
    /\ verdictFailed = FALSE
    /\ critique = NullCritique
    /\ critiqueFailed = FALSE
    /\ result = [kind |-> "none", verdict |-> NullVerdict]
    /\ stages = <<>>
    /\ calls = <<>>
    /\ vectordb = NullVectorDb(TRUE)
    /\ callers = [t \in 1..MaxCalls |-> NoCall]

NextAgent == AgentStart \/ AgentStep \/ AgentFinish

SpecAgent == InitAgent /\ [][NextAgent]_vars /\ WF_vars(NextAgent)


(***************************************************************************)
(* prompts.js, vector-db client: initializePinecone, isPineconeAvailable   *)
(* and similaritySearch called MaxCalls times in any order.  A call runs   *)
(* from one await to the next in one step; another call may run between.   *)
(***************************************************************************)
\* initializePinecone up to its first await, as the set of its outcomes: the
\* early return; the constructor throwing (caught, return null), which it
\* does not with an API key and may without one; the assignment of pinecone
initBegin(db) ==
    IF db.pinecone THEN {[db |-> db, pc |-> "returned", ret |-> "pinecone"]}
    ELSE {[db |-> [db EXCEPT !.pinecone = TRUE], pc |-> "listIndexes", ret |-> "none"]}
         \cup (IF db.apiKey THEN {}
               ELSE {[db |-> db, pc |-> "returned", ret |-> "null"]})

\* initializePinecone returns ret: to its caller, or into similaritySearch
initEnd(call, ret) ==
    IF call.op = "similaritySearch" THEN [call EXCEPT !.pc = "afterInit"]
    ELSE [call EXCEPT !.pc = "returned", !.ret = ret]

InitVectorDb ==
    /\ pc = "vectordb"
    /\ vectordb \in {NullVectorDb(k) : k \in BOOLEAN}
    /\ callers = [t \in 1..MaxCalls |-> NoCall]
    /\ claim = <<>>
    /\ options = Options(TRUE, TRUE, "null", TRUE)
    /\ pineconeAvailable = FALSE
    /\ tavilyAvailable = FALSE
    /\ analysis = NullAnalysis
    /\ classifierFailed = FALSE
    /\ strategy = "undefined"
    /\ strategyConfig = NullConfig
    /\ agent = NullAgent
    /\ evidence = <<>>
    /\ retrieval = NullRetrieval
    /\ assessment = EmptyAssessment
    /\ generated = NullVerdict
    /\ verdict = NullVerdict
    /\ verdictFailed = FALSE
    /\ critique = NullCritique
    /\ critiqueFailed = FALSE
    /\ result = [kind |-> "none", verdict |-> NullVerdict]
    /\ stages = <<>>
    /\ calls = <<>>

\* initializePinecone() is called
CallInitializePinecone(t) ==
    /\ callers[t] = NoCall
    /\ \E r \in initBegin(vectordb) :
          /\ vectordb' = r.db
          /\ callers' = [callers EXCEPT ![t] =
                            [op |-> "initializePinecone", pc |-> r.pc, ret |-> r.ret]]

\* isPineconeAvailable() is called
CallIsPineconeAvailable(t) ==
    /\ callers[t] = NoCall
    /\ callers' = [callers EXCEPT ![t] =
                      [op |-> "isPineconeAvailable", pc |-> "returned",
                       ret |-> IF vectordb.apiKey /\ vectordb.pinecone
                               THEN "true" ELSE "false"]]
    /\ UNCHANGED vectordb

\* similaritySearch(query) is called: if (!index) await initializePinecone()
CallSimilaritySearch(t) ==
    /\ callers[t] = NoCall
    /\ IF vectordb.index
       THEN /\ callers' = [callers EXCEPT ![t] =
                             [op |-> "similaritySearch", pc |-> "query", ret |-> "none"]]
            /\ UNCHANGED vectordb
       ELSE \E r \in initBegin(vectordb) :
               /\ vectordb' = r.db
               /\ callers' = [callers EXCEPT ![t] =
                                 [op |-> "similaritySearch",
                                  pc |-> IF r.pc = "returned" THEN "afterInit"
                                         ELSE r.pc,
                                  ret |-> "none"]]

\* await pinecone.listIndexes() settles
ListIndexes(t) ==
    /\ callers[t].pc = "listIndexes"
    /\ \/ \* rejected: catch, return null
          /\ callers' = [callers EXCEPT ![t] = initEnd(@, "null")]
          /\ UNCHANGED vectordb
       \/ \* the index exists: index = pinecone.index(indexName)
          /\ vectordb' = [vectordb EXCEPT !.index = TRUE]
          /\ callers' = [callers EXCEPT ![t] = initEnd(@, "pinecone")]
       \/ \* it does not exist
          /\ callers' = [callers EXCEPT ![t] = [@ EXCEPT !.pc = "createIndex"]]
          /\ UNCHANGED vectordb

\* await pinecone.createIndex(...) settles
CreateIndex(t) ==
    /\ callers[t].pc = "createIndex"
    /\ \/ callers' = [callers EXCEPT ![t] = initEnd(@, "null")]
       \/ callers' = [callers EXCEPT ![t] = [@ EXCEPT !.pc = "waitReady"]]
    /\ UNCHANGED vectordb

\* the 60 s wait is over: index = pinecone.index(indexName)
WaitReady(t) ==
    /\ callers[t].pc = "waitReady"
    /\ vectordb' = [vectordb EXCEPT !.index = TRUE]
    /\ callers' = [callers EXCEPT ![t] = initEnd(@, "pinecone")]

\* similaritySearch after its await initializePinecone(): if (!index) return []
AfterInit(t) ==
    /\ callers[t].pc = "afterInit"
    /\ callers' = [callers EXCEPT ![t] =
                      IF vectordb.index THEN [@ EXCEPT !.pc = "query"]
                      ELSE [@ EXCEPT !.pc = "returned: no index", !.ret = "[]"]]
    /\ UNCHANGED vectordb

\* embedQuery and index.namespace(...).query settle: documents, or [] from
\* the catch
Query(t) ==
    /\ callers[t].pc = "query"
    /\ \E ret \in {"documents", "[]"} :
          callers' = [callers EXCEPT ![t] = [@ EXCEPT !.pc = "returned", !.ret = ret]]
    /\ UNCHANGED vectordb

\* a step of one call; the client touches nothing of a request
NextVectorDb ==
    /\ \E t \in 1..MaxCalls :
          \/ CallInitializePinecone(t)
          \/ CallIsPineconeAvailable(t)
          \/ CallSimilaritySearch(t)
          \/ ListIndexes(t)
          \/ CreateIndex(t)
          \/ WaitReady(t)
          \/ AfterInit(t)
          \/ Query(t)
    /\ UNCHANGED <<pc, claim, options, pineconeAvailable, tavilyAvailable, analysis,
                   classifierFailed, strategy, strategyConfig, agent, evidence,
                   assessment, generated, verdict, verdictFailed, critique,
                   critiqueFailed, result, stages, calls, retrieval>>

SpecVectorDb == InitVectorDb /\ [][NextVectorDb]_vars


(***************************************************************************)
(* Properties                                                              *)
(***************************************************************************)
\* the elements of a sequence
Range(f) == {f[i] : i \in DOMAIN f}

StageRank(s) ==
    CASE s = "classify" -> 1
      [] s = "route" -> 2
      [] s = "retrieve" -> 3
      [] s = "assess" -> 4
      [] s = "verify" -> 5
      [] s = "critique" -> 6
      [] s = "correct" -> 7

RetrievalCalls == {"knowledge_base", "web", KB_TOOL, CURRENT_TOOL, HISTORICAL_TOOL}

StagesInOrder ==
    \A i, j \in DOMAIN stages : i < j => StageRank(stages[i]) < StageRank(stages[j])

NothingRepeatedAfterVerdict ==
    \A i, j \in DOMAIN calls :
        (i < j /\ calls[i] = "verdict_completion")
            => calls[j] \notin RetrievalCalls \cup {"verdict_completion", "classifier"}

CorrectionTouchesOnlyVerdict ==
    pc = "correct" =>
        /\ pc' = "return"
        /\ UNCHANGED <<analysis, strategy, strategyConfig, agent, evidence,
                       assessment, generated, critique, calls>>

C2_Words ==
    { <<"c","o","n","t","r","o","v","e","r","s","i","a","l">>, <<"d","i","s","p","u","t","e","d">>, <<"a","l","l","e","g","e","d">>,
      <<"r","e","p","o","r","t","e","d","l","y">>, <<"c","l","a","i","m","s">> }

C2_SameIgnoringCase(k, w) ==
    /\ Len(k) = Len(w)
    /\ \A i \in 1..Len(k) :
          \/ k[i] = w[i]
          \/ \E j \in 1..26 : {k[i], w[i]} = {UpperChars[j], LowerChars[j]}

C2_AgenticTrigger(a) ==
    \/ a.complexity = "complex"
    \/ Len(a.entities) > 3
    \/ (a.temporality = "current" /\ a.isRecent)
    \/ a.type \in {"statistical", "numerical"}
    \/ \E i \in 1..Len(a.keywords) : \E w \in C2_Words :
          C2_SameIgnoringCase(a.keywords[i], w)

C2_SimplePredicate(a) ==
    /\ a.temporality \in {"timeless", "historical"}
    /\ a.complexity = "simple"
    /\ Len(a.entities) <= 1
    /\ a.type \in {"fact", "historical", "biographical", "scientific"}

\* C2: routeClaim returns AGENTIC exactly when an AGENTIC trigger holds;
\* otherwise SIMPLE exactly when the SIMPLE predicate holds; otherwise HYBRID.
C2_RoutingRules ==
    pc = "routed" =>
        /\ strategy = AGENTIC <=> C2_AgenticTrigger(analysis)
        /\ ~C2_AgenticTrigger(analysis) =>
              (strategy = SIMPLE <=> C2_SimplePredicate(analysis))
        /\ (~C2_AgenticTrigger(analysis) /\ ~C2_SimplePredicate(analysis))
              => strategy = HYBRID

C2_Witness ==
    /\ pc = "routed"
    /\ C2_AgenticTrigger(analysis)
    /\ C2_SimplePredicate(analysis)
    /\ strategy = AGENTIC

\* C3: when the verdict completion fails the call ends with the error
\* 'Verification failed', no verdict exists (neither a fallback nor a partial
\* one), the critique completion is never made and nothing happens afterwards.
C3_VerdictFailureIsFatal ==
    /\ [](verdictFailed =>
            /\ pc = "failed"
            /\ result = [kind |-> "Verification failed", verdict |-> NullVerdict]
            /\ verdict = NullVerdict
            /\ generated = NullVerdict
            /\ \A i \in DOMAIN calls : calls[i] # "critique_completion"
            /\ \A i \in DOMAIN stages : stages[i] \notin {"critique", "correct"})
    /\ [][~verdictFailed]_vars

C3_Witness ==
    /\ verdictFailed
    /\ pc = "failed"
    /\ options.enableCritique
    /\ Len(evidence) > 0

\* C4: when the critique completion throws, the critique is isValid = true,
\* confidence 0.5, no issues, the correction is skipped and the verdict
\* returned is the generated one.
C4_FailOpenCritique ==
    critiqueFailed =>
        /\ critique = [isValid |-> TRUE, confidence |-> 50, issues |-> <<>>]
        /\ pc \in {"return", "done"}
        /\ verdict = generated
        /\ \A i \in DOMAIN stages : stages[i] # "correct"
        /\ pc = "done" => result = [kind |-> "returned", verdict |-> generated]

C4_Witness ==
    /\ critiqueFailed
    /\ pc = "done"
    /\ Len(generated.citations) > 0

\* C5: when the classifier fails the analysis is the default {fact, [],
\* [claim], timeless, simple, not recent}, the request goes on with routing,
\* and it fails only if the verdict completion fails.
C5_ClassifierFallback ==
    classifierFailed =>
        /\ analysis = [type |-> "fact", entities |-> <<>>, keywords |-> <<claim>>,
                       temporality |-> "timeless", complexity |-> "simple",
                       isRecent |-> FALSE]
        /\ pc # "classify"
        /\ pc = "failed" => verdictFailed
        /\ pc \in {"critique", "correct", "return", "done"} =>
              /\ generated # NullVerdict
              /\ \E i \in DOMAIN stages : stages[i] = "route"
              /\ \E i \in DOMAIN stages : stages[i] = "retrieve"
              /\ \E i \in DOMAIN stages : stages[i] = "verify"

C5_Witness ==
    /\ classifierFailed
    /\ pc = "done"
    /\ result.kind = "returned"
    /\ strategy = AGENTIC
    /\ options.forceStrategy = "null"

C6_CorrectableTypes ==
    {"confidence_miscalibrated", "verdict_unsupported", "hallucination"}

\* C6: the verdict differs from the generated one only if critique is enabled,
\* the critique is invalid and holds a critical issue of type
\* confidence_miscalibrated, verdict_unsupported or hallucination.
C6_CorrectionFrame ==
    (pc \in {"critique", "correct", "return", "done"} /\ verdict # generated) =>
        /\ options.enableCritique
        /\ ~critique.isValid
        /\ \E i \in 1..Len(critique.issues) :
              /\ critique.issues[i].severity = "critical"
              /\ critique.issues[i].type \in C6_CorrectableTypes

C6_Witness ==
    /\ pc = "done"
    /\ result.kind = "returned"
    /\ result.verdict # generated
    /\ result.verdict.verdict = generated.verdict

\* is xs a sub-sequence of ys
RECURSIVE IsSubSequence(_, _)
IsSubSequence(xs, ys) ==
    IF xs = <<>> THEN TRUE
    ELSE IF ys = <<>> THEN FALSE
    ELSE IF Head(xs) = Head(ys) THEN IsSubSequence(Tail(xs), Tail(ys))
    ELSE IsSubSequence(xs, Tail(ys))

\* C7: after applyCritiqueSuggestions the citations are a sub-sequence of the
\* original citations, every one of them with its original index.
C7_CitationsNotReindexed ==
    pc = "corrected" =>
        /\ IsSubSequence(verdict.citations, generated.citations)
        /\ \A i \in 1..Len(verdict.citations) :
              \E j \in 1..Len(generated.citations) :
                  /\ generated.citations[j].title = verdict.citations[i].title
                  /\ generated.citations[j].index = verdict.citations[i].index

C7_Witness ==
    /\ pc = "corrected"
    /\ Len(verdict.citations) = 2
    /\ Len(generated.citations) = 3
    /\ verdict.citations[1].index = 2

C8_CriticalCount(type) ==
    Cardinality({i \in 1..Len(critique.issues) :
                    /\ critique.issues[i].type = type
                    /\ critique.issues[i].severity = "critical"})

\* the note appended n times
RECURSIVE C8_Notes(_)
C8_Notes(n) == IF n = 0 THEN <<>> ELSE AdjustedNote \o C8_Notes(n - 1)

\* C8 as stated: for an invalid critique with a critical verdict_unsupported
\* issue the label is NOT_ENOUGH_EVIDENCE, the confidence the original one and
\* the reasoning the original reasoning followed by the note.
C8_AsStated ==
    (/\ pc = "corrected"
     /\ ~critique.isValid
     /\ C8_CriticalCount("verdict_unsupported") > 0) =>
        /\ verdict.verdict = "NOT_ENOUGH_EVIDENCE"
        /\ verdict.confidence = generated.confidence
        /\ verdict.reasoning = generated.reasoning \o AdjustedNote

\* C8 amended: for an invalid critique with a critical verdict_unsupported
\* issue the label is NOT_ENOUGH_EVIDENCE, the reasoning is the original
\* reasoning followed by the note once per critical verdict_unsupported issue,
\* and the confidence is the original one if the critique holds no critical
\* confidence_miscalibrated issue.
C8_Amended ==
    (/\ pc = "corrected"
     /\ ~critique.isValid
     /\ C8_CriticalCount("verdict_unsupported") > 0) =>
        /\ verdict.verdict = "NOT_ENOUGH_EVIDENCE"
        /\ verdict.reasoning =
              generated.reasoning \o C8_Notes(C8_CriticalCount("verdict_unsupported"))
        /\ C8_CriticalCount("confidence_miscalibrated") = 0 =>
              verdict.confidence = generated.confidence

C8_Witness ==
    /\ pc = "corrected"
    /\ ~critique.isValid
    /\ C8_CriticalCount("verdict_unsupported") = 1
    /\ Len(critique.issues) = 2
    /\ critique.issues[1].type = "confidence_miscalibrated"
    /\ critique.issues[1].severity = "major"
    /\ generated.verdict = "TRUE"
    /\ generated.confidence = 80
    /\ verdict.confidence = 80
    /\ verdict.verdict = "NOT_ENOUGH_EVIDENCE"

C9_Key(e) == e.url \o <<":", ":">> \o SubSeq(e.snippet, 1, Min(100, Len(e.snippet)))

\* C9: under every strategy the evidence handed to the sufficiency assessment
\* and to the verdict completion holds no two records with the same key
\* url + "::" + first 100 characters of snippet.
C9_NoDuplicateKeys ==
    pc \in {"assess", "verify"} =>
        \A i, j \in 1..Len(evidence) :
            i # j => C9_Key(evidence[i]) # C9_Key(evidence[j])

\* C10: the evidence handed to the verdict completion holds at most maxSources
\* records: SIMPLE 3, HYBRID 8, AGENTIC 10.
C10_AtMostMaxSources ==
    pc = "verify" =>
        /\ strategy = SIMPLE => Len(evidence) <= 3
        /\ strategy = HYBRID => Len(evidence) <= 8
        /\ strategy = AGENTIC => Len(evidence) <= 10
        /\ Len(evidence) <= strategyConfig.maxSources

C10_Witness ==
    /\ pc = "verify"
    /\ strategy = AGENTIC
    /\ Len(evidence) = 9

\* C11: deduplicateEvidence is idempotent: applied to its own result it
\* returns the same records in the same order.
C11_DedupIdempotent ==
    [][(pc = "deduplicated" /\ pc' = "deduplicated again") => evidence' = evidence]_vars

C11_Witness ==
    /\ pc = "deduplicated again"
    /\ stages = <<3, 2>>
    /\ Len(evidence) = 2
    /\ evidence[1].source = "vector"
    /\ evidence[1].score = 0
    /\ evidence[2].source # "vector"

\* C12: for every analysis, the assessment of the empty evidence list has
\* isSufficient = false and score = 0.
C12_ZeroCase ==
    (pc = "assessed" /\ evidence = <<>>) =>
        /\ assessment.isSufficient = FALSE
        /\ assessment.score.num = 0

C12_Witness ==
    /\ pc = "assessed"
    /\ evidence = <<>>
    /\ analysis.complexity = "complex"
    /\ Len(analysis.entities) > 0
    /\ assessment.recommendation = "NOT_ENOUGH_EVIDENCE - No sources available"

C13_Added == evidence'[Len(evidence')]

C13_SnippetSum == SumOver(snippetLength, evidence, 1)

\* C13 as stated: adding a record of credibility high, whatever its snippet,
\* title and source kind, to a non-empty evidence list never lowers the score.
C13_AsStated ==
    [][(/\ pc = "assessed"
        /\ pc' = "assessed again"
        /\ Len(evidence) > 0
        /\ C13_Added.credibility = "high")
          => FracGeq(assessment'.score, assessment.score)]_vars

\* C13 amended: adding a record of credibility high whose snippet is at least
\* as long as the average snippet of the list, to a non-empty evidence list,
\* never lowers the score.
C13_Amended ==
    [][(/\ pc = "assessed"
        /\ pc' = "assessed again"
        /\ Len(evidence) > 0
        /\ C13_Added.credibility = "high"
        /\ snippetLength(C13_Added) * Len(evidence) >= C13_SnippetSum)
          => FracGeq(assessment'.score, assessment.score)]_vars

C13_Witness ==
    /\ pc = "assessed again"
    /\ Len(evidence) = 3
    /\ evidence[1].credibility = "medium"
    /\ evidence[2].credibility = "low"
    /\ evidence[3].credibility = "high"
    /\ snippetLength(evidence[3]) = 200
    /\ analysis.complexity = "complex"
    /\ FracGeq(assessment.score, MIN_SCORE)

\* the sub-scores the assessment does not return, as the specification
\* defines them
C14_Diversity ==
    Frac(Min(Cardinality({evidence[i].source : i \in 1..Len(evidence)}
                            \ {"undefined", ""}), 2), 2)

C14_Measured == analysis.complexity = "complex" /\ Len(analysis.entities) > 0

C14_Coverage ==
    IF C14_Measured
    THEN Frac(Cardinality({j \in 1..Len(analysis.entities) :
                              mentioned(evidence, analysis.entities[j])}),
              Len(analysis.entities))
    ELSE Frac(1, 1)

\* f as a numerator over the denominator L
C14_Over(f, L) == f.num * (L \div f.den)

\* C14: for a non-empty evidence list quality = 0.4*credibility +
\* 0.3*relevance + 0.15*diversityScore + 0.15*coverageScore, score =
\* 0.3*quantity + 0.7*quality, and isSufficient holds exactly when there are
\* at least 2 records, score >= 0.6 and quality >= 0.6.
C14_WeightedScores ==
    (pc \in {"assessed", "assessed again"} /\ evidence # <<>>) =>
        LET L == assessment.quality.den
            L2 == assessment.score.den
        IN  /\ 100 * assessment.quality.num =
                    40 * C14_Over(assessment.credibility, L)
                  + 30 * C14_Over(assessment.relevance, L)
                  + 15 * C14_Over(C14_Diversity, L)
                  + 15 * C14_Over(C14_Coverage, L)
            /\ 10 * assessment.score.num =
                    3 * C14_Over(assessment.quantity, L2)
                  + 7 * C14_Over(assessment.quality, L2)
            /\ assessment.isSufficient <=>
                  (/\ Len(evidence) >= 2
                   /\ 5 * assessment.score.num >= 3 * assessment.score.den
                   /\ 5 * assessment.quality.num >= 3 * assessment.quality.den)

C14_Witness ==
    /\ pc = "assessed"
    /\ Len(evidence) = 2
    /\ assessment.isSufficient
    /\ C14_Measured
    /\ C14_Coverage.num = 1
    /\ C14_Diversity.num = 2

\* the analysis with every missing field filled in as falsy or empty
C15_Filled(a) ==
    [type |-> IF "type" \in DOMAIN a THEN a.type ELSE "none",
     temporality |-> IF "temporality" \in DOMAIN a THEN a.temporality ELSE "none",
     complexity |-> IF "complexity" \in DOMAIN a THEN a.complexity ELSE "none",
     entities |-> IF "entities" \in DOMAIN a THEN a.entities ELSE <<>>,
     keywords |-> IF "keywords" \in DOMAIN a THEN a.keywords ELSE <<>>,
     isRecent |-> IF "isRecent" \in DOMAIN a THEN a.isRecent ELSE FALSE]

\* no field of the analysis holds a value the routing rules know
C15_NothingRecognised(a) ==
    /\ "type" \in DOMAIN a => a.type = "unknown"
    /\ "temporality" \in DOMAIN a => a.temporality = "unknown"
    /\ "complexity" \in DOMAIN a => a.complexity = "unknown"
    /\ "entities" \in DOMAIN a => a.entities = <<>>
    /\ "keywords" \in DOMAIN a => a.keywords = <<>>

C16_ConfigIsPure ==
    pc = "configured" =>
        LET t == IF "temporality" \in DOMAIN analysis THEN analysis.temporality
                 ELSE "none"
        IN  /\ strategy = SIMPLE =>
                  /\ strategyConfig.maxSources = 3
                  /\ strategyConfig.timeoutMs = 5000
                  /\ strategyConfig.useVectorSearch
                  /\ ~strategyConfig.useWebSearch
                  /\ ~strategyConfig.useAgent
            /\ strategy = HYBRID =>
                  /\ strategyConfig.maxSources = 8
                  /\ strategyConfig.timeoutMs = 10000
                  /\ strategyConfig.useVectorSearch
                  /\ strategyConfig.useWebSearch
                  /\ ~strategyConfig.useAgent
            /\ strategy = AGENTIC =>
                  /\ strategyConfig.maxSources = 10
                  /\ strategyConfig.maxIterations = 5
                  /\ strategyConfig.timeoutMs = 30000
                  /\ strategyConfig.useVectorSearch
                  /\ strategyConfig.useWebSearch
                  /\ strategyConfig.useAgent
            /\ strategyConfig.prioritizeWebSearch <=> t = "current"
            /\ strategyConfig.prioritizeKnowledgeBase <=> t \in {"historical", "timeless"}

C16_Witness ==
    /\ pc = "configured"
    /\ calls = <<AGENTIC, AGENTIC>>
    /\ analysis = [temporality |-> "historical"]
    /\ strategyConfig.prioritizeKnowledgeBase
    /\ ~strategyConfig.prioritizeWebSearch
    /\ strategyConfig.maxIterations = 5

C17_AsksKb == strategyConfig.useVectorSearch /\ pineconeAvailable

C17_FromKb == [i \in 1..Len(retrieval.kb.items) |-> vectorRecord(retrieval.kb.items[i])]

C17_FromWeb == [i \in 1..Len(retrieval.web.items) |-> webRecord(retrieval.web.items[i])]

C17_Finalized(records) ==
    IF records = <<>> THEN <<>>
    ELSE slice0(deduplicateEvidence(records), strategyConfig.maxSources)

\* C17: in SIMPLE/HYBRID retrieval a knowledge-base query that throws gives no
\* record and the web source is still queried and its records kept; a web
\* query that throws gives no record and the knowledge-base records are kept;
\* the retrieval ends normally in both cases.
C17_SourcesIsolated ==
    (pc = "assess" /\ strategy # AGENTIC) =>
        /\ result.kind = "none"
        /\ (C17_AsksKb /\ retrieval.kb.throws) =>
              /\ \A i \in 1..Len(evidence) : evidence[i].source # "vector"
              /\ strategyConfig.useWebSearch => "web" \in Range(calls)
              /\ (strategyConfig.useWebSearch /\ ~retrieval.web.throws)
                    => evidence = C17_Finalized(C17_FromWeb)
        /\ (strategyConfig.useWebSearch /\ retrieval.web.throws) =>
              /\ \A i \in 1..Len(evidence) : evidence[i].source = "vector"
              /\ (C17_AsksKb /\ ~retrieval.kb.throws)
                    => evidence = C17_Finalized(C17_FromKb)

C17_Witness ==
    /\ pc = "assess"
    /\ strategy = HYBRID
    /\ pineconeAvailable
    /\ retrieval.kb.throws
    /\ ~retrieval.web.throws
    /\ Len(evidence) >= 3
    /\ calls = <<"classifier", "knowledge_base", "web">>

\* C18: the sufficiency assessment never gates the pipeline: the step after
\* the assessment is the verdict generation, whatever isSufficient is and also
\* for an empty evidence list, and no request ends without the verdict
\* completion having been called.
C18_AssessmentNeverGates ==
    /\ [][pc = "assess" => pc' = "verify"]_vars
    /\ [][pc = "verify" => "verdict_completion" \in Range(calls')]_vars
    /\ [](pc \in {"return", "done", "failed"} => "verdict_completion" \in Range(calls))

C18_Witness ==
    /\ pc = "done"
    /\ evidence = <<>>
    /\ assessment.isSufficient = FALSE
    /\ result.kind = "returned"
    /\ "verdict_completion" \in Range(calls)

C19_WebQueries == {"web", CURRENT_TOOL, HISTORICAL_TOOL}

C19_KbQueries == {"knowledge_base", KB_TOOL}

\* C19: with useWebSearch = false the web source is not queried during the
\* request, and with useVectorSearch = false the knowledge base is not queried.
C19_SwitchesHonoured ==
    /\ options.useWebSearch = FALSE => Range(calls) \cap C19_WebQueries = {}
    /\ (options.useVectorSearch = FALSE /\ pineconeAvailable)
          => Range(calls) \cap C19_KbQueries = {}

C20_Critical(i) ==
    /\ critique.issues[i].type = "hallucination"
    /\ critique.issues[i].severity = "critical"

C20_Referenced(c) ==
    \E i \in 1..Len(critique.issues) :
        C20_Critical(i) /\ includes(critique.issues[i].description, c.title)

\* C20: after the correction of an invalid critique no remaining citation has
\* a title that occurs in the description of a critical hallucination issue,
\* also with several such issues, and every citation none of them refers to
\* is kept.
C20_HallucinatedCitationsDropped ==
    (pc = "corrected" /\ ~critique.isValid) =>
        /\ \A k \in 1..Len(verdict.citations) : ~C20_Referenced(verdict.citations[k])
        /\ \A k \in 1..Len(generated.citations) :
              ~C20_Referenced(generated.citations[k])
                  => \E m \in 1..Len(verdict.citations) :
                        verdict.citations[m] = generated.citations[k]

\* ---------------------------------------------------------------------------
\* C21. For each critical confidence_miscalibrated issue of an invalid
\* critique, correct() decreases the confidence by 0.2 floored at 0.3 when the
\* description mentions "too high" and increases it by 0.2 capped at 0.9 when
\* it mentions "too low"; the confidence is otherwise unchanged.  Read issue
\* by issue: the returned confidence is the original one after the adjustment
\* of every such issue, in the order of critique.issues.
C21_Adjust(c, issue) ==
    IF issue.type = "confidence_miscalibrated" /\ issue.severity = "critical"
    THEN IF includes(issue.description, TooHigh) THEN Max(30, c - 20)
         ELSE IF includes(issue.description, TooLow) THEN Min(90, c + 20)
         ELSE c
    ELSE c

RECURSIVE C21_AdjustAll(_, _)
C21_AdjustAll(c, issues) ==
    IF issues = <<>> THEN c
    ELSE C21_AdjustAll(C21_Adjust(c, Head(issues)), Tail(issues))

C21_EachIssueAdjusts ==
    (pc = "corrected" /\ ~critique.isValid) =>
        verdict.confidence = C21_AdjustAll(generated.confidence, critique.issues)

\* ---------------------------------------------------------------------------
\* C28. The direction of a confidence correction is never inverted: a critique
\* whose critical confidence_miscalibrated issues say "too high" never yields
\* a confidence above the original one, and one whose critical issues say
\* "too low" never yields a confidence below it.
C28_Says(phrase) ==
    /\ \E i \in DOMAIN critique.issues :
          /\ critique.issues[i].type = "confidence_miscalibrated"
          /\ critique.issues[i].severity = "critical"
          /\ includes(critique.issues[i].description, phrase)
    /\ \A i \in DOMAIN critique.issues :
          (/\ critique.issues[i].type = "confidence_miscalibrated"
           /\ critique.issues[i].severity = "critical") =>
              \/ includes(critique.issues[i].description, phrase)
              \/ /\ ~includes(critique.issues[i].description, TooHigh)
                 /\ ~includes(critique.issues[i].description, TooLow)

C28_DirectionKept ==
    (pc = "corrected" /\ ~critique.isValid) =>
        /\ C28_Says(TooHigh) => verdict.confidence <= generated.confidence
        /\ C28_Says(TooLow) => verdict.confidence >= generated.confidence

\* ---------------------------------------------------------------------------
\* the tool calls made so far, in order
AgentToolCalls ==
    SelectSeq(calls, LAMBDA c : c \in {KB_TOOL, CURRENT_TOOL, HISTORICAL_TOOL})

NoToolTwice(seq) == \A i, j \in DOMAIN seq : seq[i] = seq[j] => i = j

\* C22. In the agentic loop a tool is started only while fewer than 5 evidence
\* records are accumulated: once the count has reached 5 the loop ends at once
\* and no remaining planned tool is executed; while it is below 5 and planned
\* tools remain, the next step is the call of the next planned tool.
C22_EarlyStop ==
    [][ /\ (pc = "agent" /\ Len(agent.allEvidence) >= 5) =>
              (pc' = "assess" /\ AgentToolCalls' = AgentToolCalls)
        /\ (/\ pc = "agent"
            /\ Len(agent.allEvidence) < 5
            /\ agent.i < Len(agent.toolSequence)) =>
              /\ AgentToolCalls' = Append(AgentToolCalls, agent.toolSequence[agent.i + 1])
              /\ pc' = "agent"
        /\ AgentToolCalls' # AgentToolCalls =>
              (pc = "agent" /\ Len(agent.allEvidence) < 5) ]_vars

\* the loop stopped on 5 or more records with a planned tool left unexecuted
C22_Witness ==
    /\ pc = "assess"
    /\ Len(evidence) >= 5
    /\ Len(AgentToolCalls) < Len(agent.toolSequence)

\* ---------------------------------------------------------------------------
\* C23. runVerificationAgent executes the planned tools in plan order, one at
\* a time, at most min(len(sequence), 5) of them and none twice; a tool call
\* that throws is caught and the next planned tool is still executed; the loop
\* always terminates and returns the evidence accumulated from the tools that
\* succeeded.
C23_InPlanOrder ==
    pc \in {"agent", "assess"} =>
        /\ Len(AgentToolCalls) <= Min(Len(agent.toolSequence), 5)
        /\ AgentToolCalls = SubSeq(agent.toolSequence, 1, Len(AgentToolCalls))
        /\ NoToolTwice(AgentToolCalls)
        /\ Len(agent.steps) <= Len(AgentToolCalls)
        /\ agent.steps = <<>> => agent.allEvidence = <<>>

C23_Returned ==
    pc = "assess" =>
        /\ evidence = agent.allEvidence
        /\ \/ Len(AgentToolCalls) = Min(Len(agent.toolSequence), 5)
           \/ Len(evidence) >= 5

\* a step in which a tool was called and threw
C23_Threw ==
    /\ AgentToolCalls' # AgentToolCalls
    /\ agent'.steps = agent.steps

C23_OrderedBoundedTerminating ==
    /\ [](C23_InPlanOrder /\ C23_Returned)
    /\ [][C23_Threw => /\ pc' = "agent"
                       /\ ~agent'.stopped
                       /\ agent'.i = agent.i + 1
                       /\ agent'.allEvidence = agent.allEvidence]_vars
    /\ <>(pc = "assess")

\* three tools were called, one of them threw, and evidence came back
C23_Witness ==
    /\ pc = "assess"
    /\ Len(AgentToolCalls) = 3
    /\ Len(agent.steps) = 2
    /\ Len(evidence) > 0

\* ---------------------------------------------------------------------------
\* C24. The planned sequence starts with the knowledge-base tool and holds no
\* tool twice.  For a claim that is not complex it holds only the current-web
\* tool when temporality is current or recent, only the historical-web tool
\* when it is historical or timeless, and both web tools for any other or
\* missing temporality; for a complex claim it holds both web tools.
C24_WebTools == {agent.toolSequence[i] : i \in 2..Len(agent.toolSequence)}

C24_PlannedSequence ==
    pc \in {"agent", "assess"} =>
        /\ Len(agent.toolSequence) >= 1
        /\ agent.toolSequence[1] = KB_TOOL
        /\ NoToolTwice(agent.toolSequence)
        /\ C24_WebTools =
              IF analysis.complexity = "complex"
              THEN {CURRENT_TOOL, HISTORICAL_TOOL}
              ELSE IF analysis.temporality \in {"current", "recent"}
              THEN {CURRENT_TOOL}
              ELSE IF analysis.temporality \in {"historical", "timeless"}
              THEN {HISTORICAL_TOOL}
              ELSE {CURRENT_TOOL, HISTORICAL_TOOL}

\* a complex claim of known temporality was planned
C24_Witness ==
    /\ pc = "agent"
    /\ analysis.complexity = "complex"
    /\ analysis.temporality = "current"
    /\ Len(agent.toolSequence) = 3

\* ---------------------------------------------------------------------------
\* C25. After deduplicateEvidence no non-vector record precedes a vector
\* record, and within each of the two groups the records are in non-increasing
\* order of effective score: the record's own score whenever it has one (a
\* score of 0 included), otherwise 0.8 for credibility high and 0.5 for any
\* other credibility.
C25_EffectiveScore(e) ==
    IF e.score # NoScore THEN e.score
    ELSE IF e.credibility = "high" THEN 80 ELSE 50

C25_SortedByEffectiveScore ==
    pc \in {"deduplicated", "deduplicated again"} =>
        \A i, j \in 1..Len(evidence) :
            i < j =>
                /\ ~(evidence[i].source # "vector" /\ evidence[j].source = "vector")
                /\ (evidence[i].source = "vector") = (evidence[j].source = "vector") =>
                       C25_EffectiveScore(evidence[i]) >= C25_EffectiveScore(evidence[j])

\* ---------------------------------------------------------------------------
\* C26. For a non-empty evidence list missingAspects holds a note for each
\* failed sub-check and for failed ones only: fewer than 3 sources; no
\* high-credibility source; average snippet length below 50; a single source
\* kind only; for a complex claim with entities, an entity mentioned in no
\* snippet or title; for temporality current or recent, no recent web source.
C26_Noted(note) == \E i \in DOMAIN assessment.missingAspects :
                       assessment.missingAspects[i] = note

C26_SourceKinds == {evidence[i].source : i \in 1..Len(evidence)} \ {"undefined", ""}

C26_NotesMatchFailedChecks ==
    (pc \in {"assessed", "assessed again"} /\ evidence # <<>>) =>
        /\ C26_Noted("Only few source(s) found, recommend 3+") <=> Len(evidence) < 3
        /\ C26_Noted("No high-credibility sources found") <=>
              ~\E i \in 1..Len(evidence) :
                    evidence[i].credibility \in {"high", "very_high"}
        /\ C26_Noted("Evidence snippets are too brief/vague") <=>
              SumOver(snippetLength, evidence, 1) < 50 * Len(evidence)
        /\ C26_Noted("Evidence from only one source type - consider diversifying") <=>
              Cardinality(C26_SourceKinds) = 1
        /\ C26_Noted("Evidence does not cover all key entities in the claim") <=>
              /\ analysis.complexity = "complex"
              /\ \E j \in DOMAIN analysis.entities :
                     ~mentioned(evidence, analysis.entities[j])
        /\ C26_Noted("No recent web sources for time-sensitive claim") <=>
              /\ analysis.temporality \in {"current", "recent"}
              /\ ~\E i \in 1..Len(evidence) :
                     evidence[i].source \in {"web", "web_current"}

\* ---------------------------------------------------------------------------
\* C29. The score threshold is implied by the other two: whenever the evidence
\* has at least 2 records and quality is at least 0.6, score is at least 0.6
\* and isSufficient is true; hence the recommendation 'MARGINAL - Verification
\* possible but uncertain' is returned for no input.
C29_ScoreThresholdImplied ==
    pc \in {"assessed", "assessed again"} =>
        /\ (Len(evidence) >= 2 /\ FracGeq(assessment.quality, Frac(3, 5))) =>
              /\ FracGeq(assessment.score, Frac(3, 5))
              /\ assessment.isSufficient
        /\ assessment.recommendation # "MARGINAL - Verification possible but uncertain"

\* exactly two records whose quality passes while it is below 0.7
C29_Witness ==
    /\ pc = "assessed"
    /\ Len(evidence) = 2
    /\ FracGeq(assessment.quality, Frac(3, 5))
    /\ FracLt(assessment.quality, Frac(7, 10))
    /\ assessment.isSufficient

\* ---------------------------------------------------------------------------
\* C27. Citation back-fill: in the verdict verifyWithEvidence returns, each
\* citation has the snippet and credibility of evidence[index-1] when
\* 1 <= index <= len(evidence) and has them undefined when index is out of
\* range; index, title, url and relevance are those of the completion's
\* citation, and no citation is added, removed or reordered.
C27_BackFilled(c, raw) ==
    /\ c.index = raw.index
    /\ c.title = raw.title
    /\ c.url = raw.url
    /\ c.relevance = raw.relevance
    /\ IF 1 <= raw.index /\ raw.index <= Len(evidence)
       THEN /\ c.snippet = evidence[raw.index].snippet
            /\ c.credibility = evidence[raw.index].credibility
       ELSE /\ c.snippet = UndefStr
            /\ c.credibility = "undefined"

C27_CitationBackFill ==
    (pc \in {"critique", "correct", "return", "done"} /\ ~verdictFailed) =>
        \E v \in CompletionVerdicts :
            /\ generated.verdict = v.verdict
            /\ generated.confidence = v.confidence
            /\ generated.reasoning = v.reasoning
            /\ Len(generated.citations) = Len(v.citations)
            /\ \A i \in 1..Len(v.citations) :
                   C27_BackFilled(generated.citations[i], v.citations[i])

\* a verdict with one citation filled from the evidence and one out of range
C27_Witness ==
    /\ pc \in {"critique", "return"}
    /\ ~verdictFailed
    /\ \E i, j \in 1..Len(generated.citations) :
          /\ generated.citations[i].index <= Len(evidence)
          /\ generated.citations[i].snippet # UndefStr
          /\ generated.citations[j].index > Len(evidence)
          /\ generated.citations[j].snippet = UndefStr

\* ---------------------------------------------------------------------------
\* C30. The lazily initialised vector-db client, in every interleaving of
\* initializePinecone, isPineconeAvailable and similaritySearch calls: once
\* an initializePinecone call has returned, the client handle is set only if
\* the index handle is set too, so isPineconeAvailable() is never true while
\* searches return no results for lack of an index, and a failed
\* initialisation is attempted again by the next call.
C30_InitReturned ==
    \E t \in 1..MaxCalls :
        callers[t].op = "initializePinecone" /\ callers[t].pc = "returned"

C30_InitInFlight == \E t \in 1..MaxCalls : callers[t].pc \in {"listIndexes", "createIndex", "waitReady"}

\* call t of initializePinecone starts in this step
C30_InitStarts(t) ==
    /\ callers[t] = NoCall
    /\ callers'[t].op = "initializePinecone"

C30_ClientOnlyWithIndex ==
    /\ [](C30_InitReturned => (vectordb.pinecone => vectordb.index))
    /\ [][\A t \in 1..MaxCalls :
            (C30_InitStarts(t) /\ ~vectordb.index /\ ~C30_InitInFlight) =>
                callers'[t].ret # "pinecone"]_vars

====
